---- MODULE Spec2Model ----
(***************************************************************************)
(* Model of the fileset classifier (sort_cache_data.py) and of the         *)
(* acquisition orchestrator (download_language_content.py).                *)
(*                                                                         *)
(* Identifiers are Python strings.  They are modelled as sequences of      *)
(* one-character strings so that slicing, endswith and fixed-offset tests  *)
(* are computed the way the code computes them.                            *)
(***************************************************************************)
EXTENDS Integers, Sequences, FiniteSets, TLC

VARIABLES
    \* ---- pure-function harness (determine_book_set) ----
    arg_fileset_id,       \* fileset_id argument
    arg_size,             \* size argument
    ret_book_set,         \* returned book set, "UNSET" before the call
    \* ---- pure-function harness (syncable-pair matcher) ----
    m_audio_id,           \* audio_fileset_id argument of match_audio_to_text
    m_audio_ids,          \* language_data[iso]["audio_filesets"] / filesets
    m_text_ids,           \* language_data[iso]["text_filesets"] / text_filesets
    m_timing,             \* self.timing_filesets
    m_done,               \* names of the matcher functions called so far
    ret_matches,          \* returned by match_audio_to_text
    ret_filtered,         \* returned by filter_dramatized_versions
    ret_refiltered,       \* returned by the filter applied to ret_filtered
    ret_pairs,            \* returned by compute_syncable_pairs
    \* ---- classifier (IndependentCacheDataSorter) ----
    all_bibles,           \* self.all_bibles
    timing_filesets,      \* self.timing_filesets
    language_data,        \* self.language_data (insertion-ordered)
    processed_filesets,   \* self.processed_filesets
    sorted_store,         \* sorted/BB/{iso}/{fileset_id}/metadata.json
    exclusions,           \* self.exclusions
    syncable_pairs_of,    \* result of compute_syncable_pairs per language
    cpc,                  \* position of run(): "loaded" | "organized" | "processed"
    sort_runs,            \* number of run() invocations of the sorter so far
    \* ---- candidate selection (get_audio_filesets / get_text_filesets) ----
    req_iso,              \* iso of the last request, "" before any
    req_book,             \* book_id of the last request, "" before any
    audio_candidates,     \* list returned by get_audio_filesets
    text_candidates,      \* list returned by get_text_filesets
    \* ---- acquisition (download_book / download_book_chapter) ----
    force,                \* force argument of the current run
    chapters,             \* chapters argument of download_book
    ch_idx,               \* position of `for chapter in chapters`
    apc,                  \* "idle" | "audio" | "text" | "done" | "crashed"
    a_idx,                \* position of `for audio_metadata in audio_filesets`
    t_idx,                \* position of `for text_metadata in text_filesets`
    downloaded_distinct_ids,
    downloaded_text_distinct_ids,
    any_audio_success,
    any_text_success,
    any_timing_success,
    counts,               \* audio_count, text_count, timing_count
    files,                \* downloads/BB/{iso}/...: the files on disk
    error_log,            \* download_log/{iso}_errors.json
    runs,                 \* number of download_book invocations so far
    faults,               \* number of adverse collaborator outcomes so far
    calls,                \* history: collaborator calls of the current chapter
    hist                  \* history: failed fetches per chapter and type

(***************************************************************************)
(* Python string primitives                                                *)
(***************************************************************************)

\* s[a:b] with 0-based, end-exclusive, non-negative a and b (clamped).
Slice(s, a, b) ==
    LET hi == IF b > Len(s) THEN Len(s) ELSE b
    IN  IF a >= hi THEN <<>> ELSE SubSeq(s, a + 1, hi)

\* s[:n] for n >= 0
Prefix(s, n) == Slice(s, 0, n)

\* s[-n:] for n > 0
LastN(s, n) == IF n >= Len(s) THEN s ELSE SubSeq(s, Len(s) - n + 1, Len(s))

\* s[:-n] for n > 0
DropLastN(s, n) == IF n >= Len(s) THEN <<>> ELSE SubSeq(s, 1, Len(s) - n)

\* s.endswith(suf)
EndsWith(s, suf) == Len(suf) <= Len(s) /\ LastN(s, Len(suf)) = suf

\* s.startswith(pre)
StartsWith(s, pre) == Len(pre) <= Len(s) /\ Prefix(s, Len(pre)) = pre

\* sub in s (substring test)
Contains(s, sub) ==
    \E i \in 0..Len(s) : i + Len(sub) <= Len(s) /\ Slice(s, i, i + Len(sub)) = sub

\* Code-point order of the characters that occur in identifiers.
CharOrder ==
    <<"-", "0", "1", "2", "3", "4", "5", "6", "7", "8", "9",
      "A", "B", "C", "D", "E", "F", "G", "H", "I", "J", "K", "L", "M",
      "N", "O", "P", "Q", "R", "S", "T", "U", "V", "W", "X", "Y", "Z",
      "_",
      "a", "b", "c", "d", "e", "f", "g", "h", "i", "j", "k", "l", "m",
      "n", "o", "p", "q", "r", "s", "t", "u", "v", "w", "x", "y", "z">>

Ord(c) == CHOOSE i \in 1..Len(CharOrder) : CharOrder[i] = c

\* a < b for Python strings (lexicographic by code point)
RECURSIVE StrLess(_, _)
StrLess(a, b) ==
    IF b = <<>> THEN FALSE
    ELSE IF a = <<>> THEN TRUE
    ELSE IF Head(a) = Head(b) THEN StrLess(Tail(a), Tail(b))
    ELSE Ord(Head(a)) < Ord(Head(b))

\* x in list
InSeq(x, s) == \E i \in 1..Len(s) : s[i] = x

\* set of the elements of a list
Range(s) == {s[i] : i \in 1..Len(s)}

(***************************************************************************)
(* Identifier literals                                                     *)
(***************************************************************************)
S_opus16 == <<"-", "o", "p", "u", "s", "1", "6">>
S_opus32 == <<"-", "o", "p", "u", "s", "3", "2">>
S_opus   == <<"-", "o", "p", "u", "s">>
S_mp3    == <<"-", "m", "p", "3">>
S_mp3_64 == <<"-", "m", "p", "3", "-", "6", "4">>
S_mp3_128 == <<"-", "m", "p", "3", "-", "1", "2", "8">>
S_64     == <<"-", "6", "4">>
S_128    == <<"-", "1", "2", "8">>
S_16     == <<"1", "6">>
S_json   == <<"-", "j", "s", "o", "n">>
S_usx    == <<"-", "u", "s", "x">>
S_ET     == <<"_", "E", "T">>
S_SA     == <<"S", "A">>
S_DA     == <<"D", "A">>
S_2DA    == <<"2", "D", "A">>
S_dash   == <<"-">>

P_ENGWEB == <<"E", "N", "G", "W", "E", "B">>
P_ENGKJV == <<"E", "N", "G", "K", "J", "V">>
P_AAAMLT == <<"A", "A", "A", "M", "L", "T">>

(***************************************************************************)
(* sort_cache_data.py : pure functions of IndependentCacheDataSorter       *)
(***************************************************************************)

\* for suffix in suffixes: if s.endswith(suffix): return s[:-len(suffix)]
RECURSIVE StripFirstSuffix(_, _)
StripFirstSuffix(s, suffixes) ==
    IF suffixes = <<>> THEN s
    ELSE IF EndsWith(s, Head(suffixes)) THEN DropLastN(s, Len(Head(suffixes)))
    ELSE StripFirstSuffix(s, Tail(suffixes))

SorterSuffixes == <<S_opus16, S_opus32, S_mp3, S_64, S_128, S_16>>

sorter_normalize_fileset_id(fileset_id) ==
    StripFirstSuffix(fileset_id, SorterSuffixes)

determine_book_set_mut_size_overrides(fileset_id, size) ==
    LET collection == IF Len(fileset_id) >= 7 THEN fileset_id[7] ELSE "None"
        from_id == CASE collection = "O" -> "OT"
                     [] collection = "N" -> "NT"
                     [] collection = "C" -> "FULL"
                     [] collection = "P" -> "PARTIAL"
                     [] collection = "S" -> "STORY"
                     [] OTHER -> "None"
        reconciled ==
            IF size \in {"C", "NTOTP"} THEN "FULL"
            ELSE IF size \in {"NT", "NTP"}
                 THEN (IF from_id \notin {"OT", "FULL"} THEN "NT" ELSE from_id)
            ELSE IF size \in {"OT", "OTP"}
                 THEN (IF from_id \notin {"NT", "FULL"} THEN "OT" ELSE from_id)
            ELSE from_id
    IN  IF reconciled = "None" THEN "VARIOUS" ELSE reconciled

determine_book_set_mut_nt_forces(fileset_id, size) ==
    LET collection == IF Len(fileset_id) >= 7 THEN fileset_id[7] ELSE "None"
        from_id == CASE collection = "O" -> "OT"
                     [] collection = "N" -> "NT"
                     [] collection = "C" -> "FULL"
                     [] collection = "P" -> "PARTIAL"
                     [] collection = "S" -> "STORY"
                     [] OTHER -> "None"
        reconciled ==
            IF from_id = "PARTIAL" THEN from_id
            ELSE IF size \in {"C", "NTOTP"} THEN "FULL"
            ELSE IF size \in {"NT", "NTP"} THEN "NT"
            ELSE IF size \in {"OT", "OTP"}
                 THEN (IF from_id \notin {"NT", "FULL"} THEN "OT" ELSE from_id)
            ELSE from_id
    IN  IF reconciled = "None" THEN "VARIOUS" ELSE reconciled

\* "None" stands for Python's None; `book_set or "VARIOUS"` maps it to VARIOUS.
determine_book_set(fileset_id, size) ==
    LET collection == IF Len(fileset_id) >= 7 THEN fileset_id[7] ELSE "None"
        from_id == CASE collection = "O" -> "OT"
                     [] collection = "N" -> "NT"
                     [] collection = "C" -> "FULL"
                     [] collection = "P" -> "PARTIAL"
                     [] collection = "S" -> "STORY"
                     [] OTHER -> "None"
        reconciled ==
            IF from_id = "PARTIAL" THEN from_id
            ELSE IF size \in {"C", "NTOTP"} THEN "FULL"
            ELSE IF size \in {"NT", "NTP"}
                 THEN (IF from_id \notin {"OT", "FULL"} THEN "NT" ELSE from_id)
            ELSE IF size \in {"OT", "OTP"}
                 THEN (IF from_id \notin {"NT", "FULL"} THEN "OT" ELSE from_id)
            ELSE from_id
    IN  IF reconciled = "None" THEN "VARIOUS" ELSE reconciled

\* base key of filter_dramatized_versions: fs_id[:-3] + fs_id[-2:]
DramaBase(fs_id) == DropLastN(fs_id, 3) \o LastN(fs_id, 2)

\* fs[-3] for len(fs) >= 3
ThirdFromLast(fs) == fs[Len(fs) - 2]

\* keys of base_groups in insertion order
RECURSIVE DramaBaseKeys(_, _)
DramaBaseKeys(filesets, seen) ==
    IF filesets = <<>> THEN seen
    ELSE LET fs == Head(filesets)
         IN  IF Len(fs) >= 3 /\ ~InSeq(DramaBase(fs), seen)
             THEN DramaBaseKeys(Tail(filesets), Append(seen, DramaBase(fs)))
             ELSE DramaBaseKeys(Tail(filesets), seen)

DramaGroupKept_mut_drop_last(fs_list) ==
    LET has_version_1 == \E i \in 1..Len(fs_list) :
                             Len(fs_list[i]) >= 3 /\ ThirdFromLast(fs_list[i]) = "1"
    IN  IF has_version_1 /\ Len(fs_list) > 1
        THEN SubSeq(fs_list, 1, Len(fs_list) - 1)
        ELSE fs_list

\* body of the loop over base_groups.items() for one group
DramaGroupKept(fs_list) ==
    LET has_version_1 == \E i \in 1..Len(fs_list) :
                             Len(fs_list[i]) >= 3 /\ ThirdFromLast(fs_list[i]) = "1"
        IsV2(fs) == Len(fs) >= 3 /\ ThirdFromLast(fs) = "2"
        version_2_ids == SelectSeq(fs_list, IsV2)
        NotV2(fs) == ~InSeq(fs, version_2_ids)
    IN  IF has_version_1 /\ version_2_ids # <<>>
        THEN SelectSeq(fs_list, NotV2)
        ELSE fs_list

RECURSIVE DramaConcat(_, _)
DramaConcat(keys, filesets) ==
    IF keys = <<>> THEN <<>>
    ELSE LET InGroup(fs) == Len(fs) >= 3 /\ DramaBase(fs) = Head(keys)
         IN  DramaGroupKept(SelectSeq(filesets, InGroup))
                \o DramaConcat(Tail(keys), filesets)

filter_dramatized_versions(filesets) ==
    DramaConcat(DramaBaseKeys(filesets, <<>>), filesets)

Min(a, b) == IF a < b THEN a ELSE b

match_audio_to_text_mut_fixed7(audio_fileset_id, text_filesets) ==
    IF Len(audio_fileset_id) < 6 THEN <<>>
    ELSE LET Matches(text_id) ==
                 /\ Len(audio_fileset_id) >= 7
                 /\ Len(text_id) >= 7
                 /\ Prefix(audio_fileset_id, 7) = Prefix(text_id, 7)
         IN  SortSeq(SelectSeq(text_filesets, Matches), StrLess)

match_audio_to_text(audio_fileset_id, text_filesets) ==
    IF Len(audio_fileset_id) < 6 THEN <<>>
    ELSE LET Matches(text_id) ==
                 LET compare_length == Min(7, Len(text_id))
                 IN  /\ Len(audio_fileset_id) >= compare_length
                     /\ Prefix(audio_fileset_id, compare_length)
                            = Prefix(text_id, compare_length)
         IN  SortSeq(SelectSeq(text_filesets, Matches), StrLess)

(***************************************************************************)
(* Catalog records.                                                        *)
(*   bible   : [abbr, name, iso, language, autonym, filesets]              *)
(*   fileset : [id, type, size]                                            *)
(* The platform -> list mapping of bible["filesets"] is flattened to one   *)
(* list in the dict's iteration order.                                     *)
(***************************************************************************)
T_audio        == <<"a", "u", "d", "i", "o">>
T_audio_drama  == <<"a", "u", "d", "i", "o", "_", "d", "r", "a", "m", "a">>
T_audio_stream == <<"a", "u", "d", "i", "o", "_", "s", "t", "r", "e", "a", "m">>
T_audio_drama_stream ==
    <<"a", "u", "d", "i", "o", "_", "d", "r", "a", "m", "a", "_",
      "s", "t", "r", "e", "a", "m">>
T_text         == <<"t", "e", "x", "t">>
T_text_plain   == <<"t", "e", "x", "t", "_", "p", "l", "a", "i", "n">>
T_text_usx     == <<"t", "e", "x", "t", "_", "u", "s", "x">>
T_text_json    == <<"t", "e", "x", "t", "_", "j", "s", "o", "n">>
T_text_story   == <<"t", "e", "x", "t", "_", "S", "t", "o", "r", "y">>
T_video_stream == <<"v", "i", "d", "e", "o", "_", "s", "t", "r", "e", "a", "m">>
W_story        == <<"s", "t", "o", "r", "y">>
W_video        == <<"v", "i", "d", "e", "o">>

AudioTypes == {T_audio, T_audio_drama, T_audio_stream, T_audio_drama_stream}

\* str.lower()
LowerChar(c) ==
    IF Ord(c) >= Ord("A") /\ Ord(c) <= Ord("Z")
    THEN CharOrder[Ord(c) - Ord("A") + Ord("a")] ELSE c

Lower(s) == [i \in 1..Len(s) |-> LowerChar(s[i])]

BibleHeader(bible) ==
    [abbr |-> bible.abbr, name |-> bible.name, iso |-> bible.iso,
     language |-> bible.language, autonym |-> bible.autonym]

\* the defaultdict factory of self.language_data; language_info None is <<>>
NewLanguage(iso) ==
    [iso |-> iso, language_info |-> <<>>,
     audio_filesets |-> <<>>, text_filesets |-> <<>>,
     audio_details |-> <<>>, text_details |-> <<>>]

HasLang(ld, iso) == \E i \in 1..Len(ld) : ld[i].iso = iso

LangIndex(ld, iso) == CHOOSE i \in 1..Len(ld) : ld[i].iso = iso

\* self.language_data[iso] (creates the entry when absent)
TouchLang(ld, iso) == IF HasLang(ld, iso) THEN ld ELSE Append(ld, NewLanguage(iso))

\* body of `for fileset in fileset_list`
OrganizeFileset(ld, bible, fileset) ==
    LET i == LangIndex(ld, bible.iso)
        detail == [fileset |-> fileset, bible |-> BibleHeader(bible),
                   book_set |-> determine_book_set(fileset.id, fileset.size)]
    IN  IF fileset.id = <<>> THEN ld
        ELSE IF fileset.type \in AudioTypes
        THEN IF ~InSeq(fileset.id, ld[i].audio_filesets)
             THEN [ld EXCEPT ![i].audio_filesets = Append(@, fileset.id),
                             ![i].audio_details = Append(@, detail)]
             ELSE ld
        ELSE IF StartsWith(fileset.type, T_text)
        THEN IF ~InSeq(fileset.id, ld[i].text_filesets)
             THEN [ld EXCEPT ![i].text_filesets = Append(@, fileset.id),
                             ![i].text_details = Append(@, detail)]
             ELSE ld
        ELSE ld

RECURSIVE OrganizeFilesets(_, _, _)
OrganizeFilesets(ld, bible, filesets) ==
    IF filesets = <<>> THEN ld
    ELSE OrganizeFilesets(OrganizeFileset(ld, bible, Head(filesets)),
                          bible, Tail(filesets))

\* body of `for bible in self.all_bibles`
OrganizeBible(ld, bible) ==
    IF bible.iso = "" THEN ld
    ELSE LET ld1 == TouchLang(ld, bible.iso)
             i == LangIndex(ld1, bible.iso)
             ld2 == IF ld1[i].language_info = <<>>
                    THEN [ld1 EXCEPT ![i].language_info =
                            <<[iso |-> bible.iso, name |-> bible.language,
                               autonym |-> bible.autonym]>>]
                    ELSE ld1
         IN  OrganizeFilesets(ld2, bible, bible.filesets)

RECURSIVE organize_language_data(_, _)
organize_language_data(ld, bibles) ==
    IF bibles = <<>> THEN ld
    ELSE organize_language_data(OrganizeBible(ld, Head(bibles)), Tail(bibles))

compute_syncable_pairs_mut_keep_timed(lang, tf) ==
    LET audio_filtered == filter_dramatized_versions(lang.audio_filesets)
        HasMatch(audio_id) == match_audio_to_text(audio_id, lang.text_filesets) # <<>>
        matched == SelectSeq(audio_filtered, HasMatch)
    IN  [k \in 1..Len(matched) |->
            [audio_fileset_id |-> matched[k],
             text_fileset_id |-> match_audio_to_text(matched[k], lang.text_filesets)]]

compute_syncable_pairs_mut_filter_first(lang, tf) ==
    LET NoTiming(fs) == sorter_normalize_fileset_id(fs) \notin tf
        audio_filtered == SelectSeq(filter_dramatized_versions(lang.audio_filesets),
                                    NoTiming)
        HasMatch(audio_id) == match_audio_to_text(audio_id, lang.text_filesets) # <<>>
        matched == SelectSeq(audio_filtered, HasMatch)
    IN  [k \in 1..Len(matched) |->
            [audio_fileset_id |-> matched[k],
             text_fileset_id |-> match_audio_to_text(matched[k], lang.text_filesets)]]

\* lang is self.language_data[iso], tf is self.timing_filesets
compute_syncable_pairs(lang, tf) ==
    LET NoTiming(fs) == sorter_normalize_fileset_id(fs) \notin tf
        audio_without_timing == SelectSeq(lang.audio_filesets, NoTiming)
        audio_filtered == filter_dramatized_versions(audio_without_timing)
        HasMatch(audio_id) == match_audio_to_text(audio_id, lang.text_filesets) # <<>>
        matched == SelectSeq(audio_filtered, HasMatch)
    IN  [k \in 1..Len(matched) |->
            [audio_fileset_id |-> matched[k],
             text_fileset_id |-> match_audio_to_text(matched[k], lang.text_filesets)]]

is_syncable(fileset_id, syncable_pairs) ==
    \E k \in 1..Len(syncable_pairs) : syncable_pairs[k].audio_fileset_id = fileset_id

determine_data_source_mut_no_timing(fileset_id, is_audio, syncable_pairs, tf) ==
    IF ~is_audio
    THEN IF \E k \in 1..Len(syncable_pairs) :
                InSeq(fileset_id, syncable_pairs[k].text_fileset_id)
         THEN "sync" ELSE "None"
    ELSE IF is_syncable(fileset_id, syncable_pairs) THEN "sync"
    ELSE "None"

\* returns "timing", "sync" or "None"
determine_data_source(fileset_id, is_audio, syncable_pairs, tf) ==
    IF ~is_audio
    THEN IF \E k \in 1..Len(syncable_pairs) :
                InSeq(fileset_id, syncable_pairs[k].text_fileset_id)
         THEN "sync" ELSE "None"
    ELSE IF sorter_normalize_fileset_id(fileset_id) \in tf THEN "timing"
    ELSE IF is_syncable(fileset_id, syncable_pairs) THEN "sync"
    ELSE "None"

\* metadata.json; bible/fileset/categorization/download_ready are flattened
create_metadata(lang, fileset_detail, syncable_pairs, tf) ==
    LET fileset == fileset_detail.fileset
        bible == fileset_detail.bible
        fileset_id == fileset.id
        is_audio == fileset.type \in AudioTypes
        is_text == StartsWith(fileset.type, T_text)
        IsMine(pair) == pair.audio_fileset_id = fileset_id
        audio_text_pairs ==
            IF is_audio /\ is_syncable(fileset_id, syncable_pairs)
            THEN SelectSeq(syncable_pairs, IsMine) ELSE <<>>
        has_timing == sorter_normalize_fileset_id(fileset_id) \in tf
    IN  [language |-> lang.language_info,
         bible_abbr |-> bible.abbr,
         bible_name |-> bible.name,
         id |-> fileset_id,
         type |-> fileset.type,
         size |-> fileset.size,
         has_text |-> is_text,
         has_audio |-> is_audio,
         has_timing |-> has_timing,
         data_source |-> determine_data_source(fileset_id, is_audio, syncable_pairs, tf),
         book_set |-> fileset_detail.book_set,
         syncable |-> is_syncable(fileset_id, syncable_pairs),
         audio_text_pairs |-> audio_text_pairs,
         timing_available |-> has_timing]

\* the three appends of track_exclusions; excl is self.exclusions
track_exclusions(excl, iso, bible, fileset, fileset_id, fileset_type, book_set) ==
    LET rec == [iso |-> iso, bible_abbr |-> bible.abbr, fileset_id |-> fileset_id,
                type |-> fileset_type, size |-> fileset.size]
        is_sa == /\ Contains(fileset_id, S_SA)
                 /\ Len(fileset_id) >= 10
                 /\ \/ EndsWith(Slice(fileset_id, 7, 10), S_SA)
                    \/ Slice(fileset_id, 8, 10) = S_SA
        is_story == \/ Contains(Lower(fileset_type), W_story)
                    \/ Contains(Lower(fileset_type), W_video)
    IN  [sa_versions |->
            IF is_sa THEN Append(excl.sa_versions, rec) ELSE excl.sa_versions,
         partial_content |->
            IF book_set = "PARTIAL" THEN Append(excl.partial_content, rec)
            ELSE excl.partial_content,
         story_adaptations |->
            IF is_story THEN Append(excl.story_adaptations, rec)
            ELSE excl.story_adaptations]

ProcessDetail_mut_stale(st, lang, detail, syncable_pairs, tf) ==
    LET fileset_id == detail.fileset.id
        fileset_key == <<lang.iso, fileset_id>>
        fresh == create_metadata(lang, detail, syncable_pairs, tf)
        metadata == IF fileset_key \in DOMAIN st.store
                    THEN [fresh EXCEPT !.syncable = FALSE] ELSE fresh
    IN  IF fileset_key \in st.processed THEN st
        ELSE [processed |-> st.processed \cup {fileset_key},
              store |-> [k \in DOMAIN st.store \cup {fileset_key} |->
                            IF k = fileset_key THEN metadata ELSE st.store[k]],
              excl |-> track_exclusions(st.excl, lang.iso, detail.bible,
                                        detail.fileset, fileset_id,
                                        detail.fileset.type, fresh.book_set)]

\* body of the two `for ..._detail in lang_data[...]` loops;
\* st = [processed, store, excl] stands for processed_filesets,
\* the files written by save_metadata and self.exclusions
ProcessDetail(st, lang, detail, syncable_pairs, tf) ==
    LET fileset_id == detail.fileset.id
        fileset_key == <<lang.iso, fileset_id>>
        metadata == create_metadata(lang, detail, syncable_pairs, tf)
    IN  IF fileset_key \in st.processed THEN st
        ELSE [processed |-> st.processed \cup {fileset_key},
              store |-> [k \in DOMAIN st.store \cup {fileset_key} |->
                            IF k = fileset_key THEN metadata ELSE st.store[k]],
              excl |-> track_exclusions(st.excl, lang.iso, detail.bible,
                                        detail.fileset, fileset_id,
                                        detail.fileset.type, metadata.book_set)]

RECURSIVE ProcessDetails(_, _, _, _, _)
ProcessDetails(st, lang, details, syncable_pairs, tf) ==
    IF details = <<>> THEN st
    ELSE ProcessDetails(ProcessDetail(st, lang, Head(details), syncable_pairs, tf),
                        lang, Tail(details), syncable_pairs, tf)

\* body of `for iso, lang_data in self.language_data.items()`
ProcessLanguage(st, lang, tf) ==
    LET syncable_pairs == compute_syncable_pairs(lang, tf)
        st1 == ProcessDetails(st, lang, lang.audio_details, syncable_pairs, tf)
    IN  ProcessDetails(st1, lang, lang.text_details, syncable_pairs, tf)

RECURSIVE process_all_languages(_, _, _)
process_all_languages(st, ld, tf) ==
    IF ld = <<>> THEN st
    ELSE process_all_languages(ProcessLanguage(st, Head(ld), tf), Tail(ld), tf)

EmptyExclusions ==
    [sa_versions |-> <<>>, partial_content |-> <<>>, story_adaptations |-> <<>>]

EmptyStore == [k \in {} |-> 0]

(***************************************************************************)
(* download_language_content.py : candidate selection                      *)
(***************************************************************************)
OT_BOOKS ==
    {"GEN", "EXO", "LEV", "NUM", "DEU", "JOS", "JDG", "RUT", "1SA", "2SA",
     "1KI", "2KI", "1CH", "2CH", "EZR", "NEH", "EST", "JOB", "PSA", "PRO",
     "ECC", "SNG", "ISA", "JER", "LAM", "EZK", "DAN", "HOS", "JOL", "AMO",
     "OBA", "JON", "MIC", "NAM", "HAB", "ZEP", "HAG", "ZEC", "MAL"}

NT_BOOKS ==
    {"MAT", "MRK", "LUK", "JHN", "ACT", "ROM", "1CO", "2CO", "GAL", "EPH",
     "PHP", "COL", "1TH", "2TH", "1TI", "2TI", "TIT", "PHM", "HEB", "JAS",
     "1PE", "2PE", "1JN", "2JN", "3JN", "JUD", "REV"}

\* _EXCLUSIONS after load_exclusions() read exclude_download.json
load_exclusions(excl) ==
    [sa_versions |-> {excl.sa_versions[i].fileset_id :
                        i \in 1..Len(excl.sa_versions)},
     partial_content |-> {excl.partial_content[i].fileset_id :
                        i \in 1..Len(excl.partial_content)},
     story_adaptations |-> {excl.story_adaptations[i].fileset_id :
                        i \in 1..Len(excl.story_adaptations)}]

\* the metadata records of sorted/BB/{iso}/*/metadata.json, as a set
load_language_metadata(store, iso) ==
    {store[k] : k \in {kk \in DOMAIN store : kk[1] = iso}}

\* `if "autonym" not in lang_info: lang_info["autonym"] = lang_info.get("name", "")`
EnsureAutonym(lang_info) ==
    IF "autonym" \in DOMAIN lang_info THEN lang_info
    ELSE [x \in DOMAIN lang_info \cup {"autonym"} |->
            IF x = "autonym" THEN lang_info.name ELSE lang_info[x]]

\* the values get_language_info can return: the language record of
\* whichever metadata file the directory listing yields first (None is <<>>)
get_language_info(store, iso) ==
    IF load_language_metadata(store, iso) = {} THEN {<<>>}
    ELSE {[i \in 1..Len(m.language) |-> EnsureAutonym(m.language[i])] :
            m \in load_language_metadata(store, iso)}

\* the scope test shared by get_audio_filesets and get_text_filesets
CoversBook(book_set, book_id) ==
    LET is_ot == book_id \in OT_BOOKS
    IN  \/ book_set = "FULL"
        \/ book_set = "OT" /\ is_ot
        \/ book_set = "NT" /\ ~is_ot

AudioKeyLess_mut_format_first(d1, d2) ==
    LET drama1 == Contains(d1.id, S_2DA)
        drama2 == Contains(d2.id, S_2DA)
        opus1 == Contains(d1.id, S_opus)
        opus2 == Contains(d2.id, S_opus)
    IN  IF opus1 # opus2 THEN opus2
        ELSE IF drama1 # drama2 THEN drama2
        ELSE StrLess(d1.id, d2.id)

\* (a, b, id) < (a2, b2, id2) for Python tuples of (bool, bool, str)
AudioKeyLess(d1, d2) ==
    LET drama1 == Contains(d1.id, S_2DA)
        drama2 == Contains(d2.id, S_2DA)
        opus1 == Contains(d1.id, S_opus)
        opus2 == Contains(d2.id, S_opus)
    IN  IF drama1 # drama2 THEN drama2
        ELSE IF opus1 # opus2 THEN opus2
        ELSE StrLess(d1.id, d2.id)

text_priority_mut_json_first(fileset_id) ==
    IF EndsWith(fileset_id, S_ET) /\ ~Contains(fileset_id, S_dash) THEN 0
    ELSE IF EndsWith(fileset_id, S_json) THEN 1
    ELSE IF EndsWith(fileset_id, S_usx) THEN 2
    ELSE 3

text_priority(fileset_id) ==
    IF EndsWith(fileset_id, S_ET) /\ ~Contains(fileset_id, S_dash) THEN 0
    ELSE IF EndsWith(fileset_id, S_usx) THEN 1
    ELSE IF EndsWith(fileset_id, S_json) THEN 2
    ELSE 3

TextKeyLess(d1, d2) ==
    IF text_priority(d1.id) # text_priority(d2.id)
    THEN text_priority(d1.id) < text_priority(d2.id)
    ELSE StrLess(d1.id, d2.id)

\* a set as a list in some order (the order is erased by the sort below)
RECURSIVE SetToSeq(_)
SetToSeq(S) ==
    IF S = {} THEN <<>>
    ELSE LET x == CHOOSE y \in S : TRUE IN <<x>> \o SetToSeq(S \ {x})

get_audio_filesets_mut_no_scope(store, excl_sets, iso, book_id) ==
    LET sel == {d \in load_language_metadata(store, iso) :
                   /\ d.has_audio
                   /\ d.id \notin excl_sets.sa_versions
                   /\ d.id \notin excl_sets.story_adaptations
                   /\ d.book_set \in {"FULL", "OT", "NT"}}
    IN  SortSeq(SetToSeq(sel), AudioKeyLess)

get_audio_filesets(store, excl_sets, iso, book_id) ==
    LET sel == {d \in load_language_metadata(store, iso) :
                   /\ d.has_audio
                   /\ d.id \notin excl_sets.sa_versions
                   /\ d.id \notin excl_sets.story_adaptations
                   /\ CoversBook(d.book_set, book_id)}
    IN  SortSeq(SetToSeq(sel), AudioKeyLess)

get_text_filesets(store, excl_sets, iso, book_id) ==
    LET sel == {d \in load_language_metadata(store, iso) :
                   /\ d.has_text
                   /\ d.id \notin excl_sets.sa_versions
                   /\ d.id \notin excl_sets.story_adaptations
                   /\ CoversBook(d.book_set, book_id)}
    IN  SortSeq(SetToSeq(sel), TextKeyLess)

(***************************************************************************)
(* download_language_content.py : acquisition                              *)
(***************************************************************************)
DlAudioSuffixes == <<S_opus16, S_opus32, S_mp3_64, S_mp3_128, S_mp3>>

DlTextSuffixes == <<S_json, S_usx>>

\* normalize_fileset_id of the downloader: the second loop runs only when
\* no audio suffix matched
dl_normalize_fileset_id(fileset_id) ==
    IF \E i \in 1..Len(DlAudioSuffixes) : EndsWith(fileset_id, DlAudioSuffixes[i])
    THEN StripFirstSuffix(fileset_id, DlAudioSuffixes)
    ELSE StripFirstSuffix(fileset_id, DlTextSuffixes)

DistinctTextSuffixes == <<S_ET \o S_json, S_ET \o S_usx, S_ET>>

\* base[-4:-2] for len(base) > 6
Idx4to2(base) == SubSeq(base, Len(base) - 3, Len(base) - 2)

get_distinct_id_from_metadata(metadata) ==
    IF metadata.bible_abbr # <<>> THEN metadata.bible_abbr
    ELSE LET b1 == StripFirstSuffix(metadata.id, DlAudioSuffixes)
             b2 == StripFirstSuffix(b1, DistinctTextSuffixes)
         IN  IF Len(b2) > 6
             THEN IF /\ Idx4to2(b2) \in {<<"N", "1">>, <<"O", "1">>,
                                         <<"N", "2">>, <<"O", "2">>}
                     /\ LastN(b2, 2) = S_DA
                  THEN DropLastN(b2, 4)
                  ELSE IF EndsWith(LastN(b2, 3), S_DA) THEN DropLastN(b2, 3)
                  ELSE b2
             ELSE b2

has_timing_available_mut_always(store, iso, audio_fileset_id) == TRUE

has_timing_available(store, iso, audio_fileset_id) ==
    IF <<iso, audio_fileset_id>> \notin DOMAIN store THEN FALSE
    ELSE store[<<iso, audio_fileset_id>>].timing_available

\* one file of downloads/BB/{iso}/{distinct_id}/{book}/; kind is "mp3",
\* "txt" or "timing"; content is "complete" or "incomplete" (partially
\* written or zero-size)
File(distinct_id, book_id, chapter, fileset_id, kind, content) ==
    [dir |-> distinct_id, book |-> book_id, chapter |-> chapter,
     fileset |-> fileset_id, kind |-> kind, content |-> content]

\* book_dir.glob(f"{book_id}_{chapter_str}_*.{kind}")
Glob(fs, distinct_id, book_id, chapter, kind) ==
    {f \in fs : /\ f.dir = distinct_id /\ f.book = book_id
                /\ f.chapter = chapter /\ f.kind = kind}

\* path.exists()
Exists(fs, distinct_id, book_id, chapter, fileset_id, kind) ==
    \E f \in Glob(fs, distinct_id, book_id, chapter, kind) : f.fileset = fileset_id

\* open(path, "w") followed by the write: the path now holds `content`
WriteFile(fs, distinct_id, book_id, chapter, fileset_id, kind, content) ==
    {f \in fs : ~(/\ f.dir = distinct_id /\ f.book = book_id
                  /\ f.chapter = chapter /\ f.kind = kind
                  /\ f.fileset = fileset_id)}
        \cup {File(distinct_id, book_id, chapter, fileset_id, kind, content)}

log_download_error_mut_always_new(errlog, book_id, chapter, content_type, error_type, fileset, distinct_id) ==
    Append(errlog,
           [book |-> book_id, chapter |-> chapter,
            audio_errors |-> IF content_type = "audio"
                             THEN <<[error_type |-> error_type,
                                     fileset |-> fileset,
                                     distinct_id |-> distinct_id]>>
                             ELSE <<>>,
            text_errors |-> IF content_type = "text"
                            THEN <<[error_type |-> error_type,
                                    fileset |-> fileset,
                                    distinct_id |-> distinct_id]>>
                            ELSE <<>>,
            timing_errors |-> IF content_type = "timing"
                              THEN <<[error_type |-> error_type,
                                      fileset |-> fileset,
                                      distinct_id |-> distinct_id]>>
                              ELSE <<>>])

\* errlog is the "errors" list of _ERROR_LOG[iso], which load_error_log read
\* from {iso}_errors.json on the first call of the process (the empty list
\* when the file is absent) and save_error_log writes back at the end of
\* every call; timestamps are left out
log_download_error(errlog, book_id, chapter, content_type, error_type, fileset, distinct_id) ==
    LET found == \E i \in 1..Len(errlog) :
                    errlog[i].book = book_id /\ errlog[i].chapter = chapter
        log1 == IF found THEN errlog
                ELSE Append(errlog, [book |-> book_id, chapter |-> chapter,
                                     audio_errors |-> <<>>, text_errors |-> <<>>,
                                     timing_errors |-> <<>>])
        i == CHOOSE j \in 1..Len(log1) :
                /\ log1[j].book = book_id /\ log1[j].chapter = chapter
                /\ \A k \in 1..(j - 1) :
                      ~(log1[k].book = book_id /\ log1[k].chapter = chapter)
        format_error == [error_type |-> error_type, fileset |-> fileset,
                         distinct_id |-> distinct_id]
    IN  IF content_type = "audio"
        THEN [log1 EXCEPT ![i].audio_errors = Append(@, format_error)]
        ELSE IF content_type = "text"
        THEN [log1 EXCEPT ![i].text_errors = Append(@, format_error)]
        ELSE IF content_type = "timing"
        THEN [log1 EXCEPT ![i].timing_errors = Append(@, format_error)]
        ELSE log1

(***************************************************************************)
(* Inputs                                                                  *)
(***************************************************************************)
ID_WEB_N1DA    == P_ENGWEB \o <<"N", "1", "D", "A">>
ID_WEB_N2DA    == P_ENGWEB \o <<"N", "2", "D", "A">>
ID_WEB_N1DA_opus == ID_WEB_N1DA \o S_opus16

ID_WEB_N2DA_opus == ID_WEB_N2DA \o S_opus16

ID_WEB_N1DA_mp3_64 == ID_WEB_N1DA \o S_mp3_64
ID_WEB_N2DA16  == ID_WEB_N2DA \o S_16
ID_WEB_N1SA    == P_ENGWEB \o <<"N", "1", "S", "A">>
ID_WEB_N_ET    == P_ENGWEB \o <<"N">> \o S_ET
ID_WEB_N_ET_usx == ID_WEB_N_ET \o S_usx

ID_WEB_N_ET_json == ID_WEB_N_ET \o S_json
ID_WEB_short   == P_ENGWEB
ID_WEB_S2DV    == P_ENGWEB \o <<"S", "2", "D", "V">>
ID_KJV_O1DA    == P_ENGKJV \o <<"O", "1", "D", "A">>
ID_KJV_O_ET    == P_ENGKJV \o <<"O">> \o S_ET
ID_KJV_P1DA    == P_ENGKJV \o <<"P", "1", "D", "A">>
ID_KJV_C1DA    == P_ENGKJV \o <<"C", "1", "D", "A">>

FS(id, type, size) == [id |-> id, type |-> type, size |-> size]

Bible(abbr, iso, autonym, filesets) ==
    [abbr |-> abbr, name |-> "name", iso |-> iso, language |-> "English",
     autonym |-> autonym, filesets |-> filesets]

BiblePool ==
    { Bible(P_ENGWEB, "eng", "English",
            <<FS(ID_WEB_N1DA, T_audio, "NT"),
              FS(ID_WEB_N2DA, T_audio_drama, "NT"),
              FS(ID_WEB_N1DA_opus, T_audio, "NT"),
              FS(ID_WEB_N2DA_opus, T_audio_drama, "NT")>>),
      Bible(P_ENGWEB, "eng", "",
            <<FS(ID_WEB_N_ET, T_text_plain, "NT"),
              FS(ID_WEB_N_ET_json, T_text_json, "NT"),
              FS(ID_WEB_N_ET_usx, T_text_usx, "NT"),
              FS(ID_WEB_short, T_text_json, "C")>>),
      Bible(P_ENGKJV, "eng", "",
            <<FS(ID_KJV_O1DA, T_audio, "OT"),
              FS(ID_KJV_O_ET, T_text_plain, "OT"),
              FS(ID_KJV_P1DA, T_audio, "NT")>>),
      Bible(P_ENGKJV, "eng", "",
            <<FS(ID_KJV_C1DA, T_audio, "C"),
              FS(ID_WEB_N1SA, T_audio_stream, "NT"),
              FS(ID_WEB_N2DA16, T_audio_drama, "")>>),
      Bible(<<>>, "eng", "",
            <<FS(ID_WEB_S2DV, T_video_stream, "S"),
              FS(ID_WEB_N_ET, T_text_story, "NT"),
              FS(<<>>, T_audio, "NT"),
              FS(ID_KJV_O1DA, T_text_plain, "")>>),
      Bible(P_ENGWEB, "spa", "Castellano",
            <<FS(ID_WEB_N1DA, T_audio, ""),
              FS(ID_WEB_N1DA_mp3_64, T_audio, ""),
              FS(ID_WEB_N_ET, T_text_plain, "")>>),
      Bible(P_ENGKJV, "", "",
            <<FS(ID_KJV_C1DA, T_audio, "C")>>) }

TimingPool == {ID_WEB_N1DA, ID_WEB_N2DA, ID_KJV_O1DA}

RequestBooks == {"GEN", "MAT"}

MaxBibles == 2

MaxSortRuns == 2

\* the catalog the acquisition runs are made against
AcqCatalog ==
    << Bible(P_ENGWEB, "eng", "English",
             <<FS(ID_WEB_N1DA, T_audio, "NT"),
               FS(ID_WEB_N1DA_opus, T_audio, "NT"),
               FS(ID_WEB_N_ET, T_text_plain, "NT"),
               FS(ID_WEB_N_ET_usx, T_text_usx, "NT")>>),
       Bible(<<>>, "eng", "",
             <<FS(ID_KJV_C1DA, T_audio, "C")>>) >>

AcqTimingPool == {ID_WEB_N1DA}

AcqIso == "eng"

AcqBooks == {"MAT"}

ChapterLists == {<<1, 2>>}

AllChapters == UNION {Range(cl) : cl \in ChapterLists}

MaxRuns == 2

MaxFaults == 2

SeqsUpTo(S, n) == UNION {[1..k -> S] : k \in 0..n}

MaxIds == 3

ID_ENGWE == Prefix(P_ENGWEB, 5)

MatchAudioPool ==
    {ID_WEB_N1DA, ID_WEB_N1DA_opus, ID_KJV_O1DA, P_ENGWEB, ID_ENGWE,
     ID_ENGWE \o <<"X">>, Prefix(P_ENGWEB, 2), <<>>}

ID_KJV_O2DA == P_ENGKJV \o <<"O", "2", "D", "A">>

ID_WEB_N3DA == P_ENGWEB \o <<"N", "3", "D", "A">>

PairAudioPool ==
    {ID_WEB_N1DA, ID_WEB_N2DA, ID_WEB_N3DA, ID_KJV_O2DA, <<"D", "A">>}

PairTextLists ==
    {<<>>, <<ID_WEB_N_ET>>, <<ID_WEB_N_ET_usx, ID_KJV_O_ET, ID_WEB_N_ET>>,
     <<P_ENGWEB>>}

PairTimingSets == {{}, {ID_WEB_N1DA}, {ID_WEB_N2DA, ID_KJV_O2DA}}

MatchTextPool ==
    {ID_WEB_N_ET, ID_WEB_N_ET_usx, P_ENGWEB, ID_ENGWE, ID_KJV_O_ET,
     Prefix(P_ENGWEB, 2)}

BookSetIds ==
    {P_AAAMLT \o <<c>> \o <<"1", "D", "A">> :
        c \in {"O", "N", "C", "P", "S", "X", "_", "1"}}
    \cup {P_AAAMLT \o <<"P">>, P_AAAMLT \o <<"N">>, P_AAAMLT,
          <<"P", "P", "P", "P", "P", "P", "N", "P", "D", "A">>, <<>>}

SizePool == {"C", "NTOTP", "NT", "NTP", "OT", "OTP", "", "S", "P", "NTPOTP"}

(***************************************************************************)
(* State machines                                                          *)
(***************************************************************************)
vars == <<arg_fileset_id, arg_size, ret_book_set,
          m_audio_id, m_audio_ids, m_text_ids, m_timing, m_done,
          ret_matches, ret_filtered, ret_refiltered, ret_pairs,
          all_bibles, timing_filesets, language_data, processed_filesets,
          sorted_store, exclusions, syncable_pairs_of, cpc, sort_runs,
          req_iso, req_book, audio_candidates, text_candidates,
          force, chapters, ch_idx, apc, a_idx, t_idx,
          downloaded_distinct_ids, downloaded_text_distinct_ids,
          any_audio_success, any_text_success, any_timing_success,
          counts, files, error_log, runs, faults, calls, hist>>

matcherVars == <<m_audio_id, m_audio_ids, m_text_ids, m_timing, m_done,
                 ret_matches, ret_filtered, ret_refiltered, ret_pairs>>

harnessVars == <<arg_fileset_id, arg_size, ret_book_set, matcherVars>>

classifierVars == <<all_bibles, timing_filesets, language_data,
                    processed_filesets, sorted_store, exclusions,
                    syncable_pairs_of, cpc, sort_runs>>

selectionVars == <<req_iso, req_book, audio_candidates, text_candidates>>

MatcherIdle ==
    /\ m_audio_id = <<>>
    /\ m_audio_ids = <<>>
    /\ m_text_ids = <<>>
    /\ m_timing = {}
    /\ m_done = {}
    /\ ret_matches = <<>>
    /\ ret_filtered = <<>>
    /\ ret_refiltered = <<>>
    /\ ret_pairs = <<>>

HarnessIdle ==
    /\ arg_fileset_id = <<>>
    /\ arg_size = ""
    /\ ret_book_set = "UNSET"
    /\ MatcherIdle

\* state after IndependentCacheDataSorter.__init__
SorterConstructed ==
    /\ language_data = <<>>
    /\ processed_filesets = {}
    /\ sorted_store = EmptyStore
    /\ exclusions = EmptyExclusions
    /\ syncable_pairs_of = <<>>

acqVars == <<force, chapters, ch_idx, apc, a_idx, t_idx,
             downloaded_distinct_ids, downloaded_text_distinct_ids,
             any_audio_success, any_text_success, any_timing_success,
             counts, files, error_log, runs, faults, calls, hist>>

ZeroCounts == [audio |-> 0, text |-> 0, timing |-> 0]

ZeroHist == [audio |-> 0, text |-> 0, timing |-> 0]

\* no failed fetch and no failed write observed yet
EmptyHist == [c \in AllChapters |-> ZeroHist]

\* nothing downloaded and nothing logged yet
AcqIdle ==
    /\ force = FALSE
    /\ chapters = <<>>
    /\ ch_idx = 0
    /\ apc = "idle"
    /\ a_idx = 0
    /\ t_idx = 0
    /\ downloaded_distinct_ids = {}
    /\ downloaded_text_distinct_ids = {}
    /\ any_audio_success = FALSE
    /\ any_text_success = FALSE
    /\ any_timing_success = FALSE
    /\ counts = ZeroCounts
    /\ files = {}
    /\ error_log = <<>>
    /\ runs = 0
    /\ faults = 0
    /\ calls = <<>>
    /\ hist = EmptyHist

SelectionIdle ==
    /\ req_iso = ""
    /\ req_book = ""
    /\ audio_candidates = <<>>
    /\ text_candidates = <<>>

\* ---- determine_book_set applied to drawn inputs ----
InitBookSet ==
    /\ AcqIdle
    /\ arg_fileset_id \in BookSetIds
    /\ arg_size \in SizePool
    /\ ret_book_set = "UNSET"
    /\ MatcherIdle
    /\ all_bibles = <<>>
    /\ timing_filesets = {}
    /\ cpc = "idle"
    /\ sort_runs = 0
    /\ SorterConstructed
    /\ SelectionIdle

CallDetermineBookSet ==
    /\ ret_book_set = "UNSET"
    /\ cpc = "idle"
    /\ ret_book_set' = determine_book_set(arg_fileset_id, arg_size)
    /\ UNCHANGED <<arg_fileset_id, arg_size>>
    /\ UNCHANGED matcherVars
    /\ UNCHANGED classifierVars
    /\ UNCHANGED selectionVars
    /\ UNCHANGED acqVars

NextBookSet == CallDetermineBookSet

SpecBookSet == InitBookSet /\ [][NextBookSet]_vars

\* ---- match_audio_to_text applied to one audio id and one text list ----
InitMatch ==
    /\ AcqIdle
    /\ arg_fileset_id = <<>>
    /\ arg_size = ""
    /\ ret_book_set = "UNSET"
    /\ m_audio_id \in MatchAudioPool
    /\ m_text_ids \in SeqsUpTo(MatchTextPool, MaxIds)
    /\ m_audio_ids = <<>>
    /\ m_timing = {}
    /\ m_done = {}
    /\ ret_matches = <<>>
    /\ ret_filtered = <<>>
    /\ ret_refiltered = <<>>
    /\ ret_pairs = <<>>
    /\ all_bibles = <<>>
    /\ timing_filesets = {}
    /\ cpc = "idle"
    /\ sort_runs = 0
    /\ SorterConstructed
    /\ SelectionIdle

CallMatchAudioToText ==
    /\ "match" \notin m_done
    /\ m_done' = m_done \cup {"match"}
    /\ ret_matches' = match_audio_to_text(m_audio_id, m_text_ids)
    /\ UNCHANGED <<arg_fileset_id, arg_size, ret_book_set>>
    /\ UNCHANGED <<m_audio_id, m_audio_ids, m_text_ids, m_timing,
                   ret_filtered, ret_refiltered, ret_pairs>>
    /\ UNCHANGED classifierVars
    /\ UNCHANGED selectionVars
    /\ UNCHANGED acqVars

NextMatch == CallMatchAudioToText

SpecMatch == InitMatch /\ [][NextMatch]_vars

\* ---- filter_dramatized_versions and compute_syncable_pairs on drawn lists ----
InitPairs ==
    /\ AcqIdle
    /\ arg_fileset_id = <<>>
    /\ arg_size = ""
    /\ ret_book_set = "UNSET"
    /\ m_audio_id = <<>>
    /\ m_audio_ids \in SeqsUpTo(PairAudioPool, MaxIds)
    /\ m_text_ids \in PairTextLists
    /\ m_timing \in PairTimingSets
    /\ m_done = {}
    /\ ret_matches = <<>>
    /\ ret_filtered = <<>>
    /\ ret_refiltered = <<>>
    /\ ret_pairs = <<>>
    /\ all_bibles = <<>>
    /\ timing_filesets = {}
    /\ cpc = "idle"
    /\ sort_runs = 0
    /\ SorterConstructed
    /\ SelectionIdle

CallFilterDramatizedVersions ==
    /\ "filter" \notin m_done
    /\ m_done' = m_done \cup {"filter"}
    /\ ret_filtered' = filter_dramatized_versions(m_audio_ids)
    /\ UNCHANGED <<arg_fileset_id, arg_size, ret_book_set>>
    /\ UNCHANGED <<m_audio_id, m_audio_ids, m_text_ids, m_timing,
                   ret_matches, ret_refiltered, ret_pairs>>
    /\ UNCHANGED classifierVars
    /\ UNCHANGED selectionVars
    /\ UNCHANGED acqVars

\* the filter applied to its own output
CallFilterAgain ==
    /\ "filter" \in m_done
    /\ "refilter" \notin m_done
    /\ m_done' = m_done \cup {"refilter"}
    /\ ret_refiltered' = filter_dramatized_versions(ret_filtered)
    /\ UNCHANGED <<arg_fileset_id, arg_size, ret_book_set>>
    /\ UNCHANGED <<m_audio_id, m_audio_ids, m_text_ids, m_timing,
                   ret_matches, ret_filtered, ret_pairs>>
    /\ UNCHANGED classifierVars
    /\ UNCHANGED selectionVars
    /\ UNCHANGED acqVars

\* organize_language_data appends an identifier to a language's list only
\* when it is non-empty and not yet in the list
IsLanguageList(ids) ==
    /\ \A i \in 1..Len(ids) : ids[i] # <<>>
    /\ \A i \in 1..Len(ids) : \A j \in 1..Len(ids) : ids[i] = ids[j] => i = j

CallComputeSyncablePairs ==
    /\ "pairs" \notin m_done
    /\ m_done' = m_done \cup {"pairs"}
    /\ IsLanguageList(m_audio_ids)
    /\ IsLanguageList(m_text_ids)
    /\ ret_pairs' = compute_syncable_pairs(
                        [audio_filesets |-> m_audio_ids,
                         text_filesets |-> m_text_ids], m_timing)
    /\ UNCHANGED <<arg_fileset_id, arg_size, ret_book_set>>
    /\ UNCHANGED <<m_audio_id, m_audio_ids, m_text_ids, m_timing,
                   ret_matches, ret_filtered, ret_refiltered>>
    /\ UNCHANGED classifierVars
    /\ UNCHANGED selectionVars
    /\ UNCHANGED acqVars

NextPairs ==
    CallFilterDramatizedVersions \/ CallFilterAgain \/ CallComputeSyncablePairs

SpecPairs == InitPairs /\ [][NextPairs]_vars

\* ---- IndependentCacheDataSorter.run() followed by candidate selection ----
\* load_timing_filesets and load_all_bibles have read the cache snapshot
InitClassify ==
    /\ AcqIdle
    /\ HarnessIdle
    /\ all_bibles \in SeqsUpTo(BiblePool, MaxBibles)
    /\ timing_filesets \in SUBSET TimingPool
    /\ cpc = "loaded"
    /\ sort_runs = 1
    /\ SorterConstructed
    /\ SelectionIdle

OrganizeLanguageData ==
    /\ cpc = "loaded"
    /\ language_data' = organize_language_data(language_data, all_bibles)
    /\ cpc' = "organized"
    /\ UNCHANGED <<all_bibles, timing_filesets, processed_filesets,
                   sorted_store, exclusions, syncable_pairs_of, sort_runs>>
    /\ UNCHANGED harnessVars
    /\ UNCHANGED selectionVars
    /\ UNCHANGED acqVars

\* process_all_languages, including the trailing save_exclusions()
ProcessAllLanguages ==
    /\ cpc = "organized"
    /\ LET st == process_all_languages(
                    [processed |-> processed_filesets, store |-> sorted_store,
                     excl |-> exclusions],
                    language_data, timing_filesets)
       IN  /\ processed_filesets' = st.processed
           /\ sorted_store' = st.store
           /\ exclusions' = st.excl
    /\ syncable_pairs_of' =
          [i \in 1..Len(language_data) |->
              compute_syncable_pairs(language_data[i], timing_filesets)]
    /\ cpc' = "processed"
    /\ UNCHANGED <<all_bibles, timing_filesets, language_data, sort_runs>>
    /\ UNCHANGED harnessVars
    /\ UNCHANGED selectionVars
    /\ UNCHANGED acqVars

\* download_book's two selection calls, after main() ran load_exclusions()
GetFilesets ==
    /\ cpc = "processed"
    /\ \E iso \in {language_data[i].iso : i \in 1..Len(language_data)},
          book_id \in RequestBooks :
          /\ req_iso' = iso
          /\ req_book' = book_id
          /\ audio_candidates' =
                get_audio_filesets(sorted_store, load_exclusions(exclusions),
                                   iso, book_id)
          /\ text_candidates' =
                get_text_filesets(sorted_store, load_exclusions(exclusions),
                                  iso, book_id)
    /\ UNCHANGED classifierVars
    /\ UNCHANGED harnessVars
    /\ UNCHANGED acqVars

\* main() once more: a new IndependentCacheDataSorter loads the same cache
\* snapshot; the metadata files of the earlier run are still in sorted/BB
RunAgain ==
    /\ cpc = "processed"
    /\ sort_runs < MaxSortRuns
    /\ sort_runs' = sort_runs + 1
    /\ language_data' = <<>>
    /\ processed_filesets' = {}
    /\ exclusions' = EmptyExclusions
    /\ syncable_pairs_of' = <<>>
    /\ cpc' = "loaded"
    /\ UNCHANGED <<all_bibles, timing_filesets, sorted_store>>
    /\ UNCHANGED harnessVars
    /\ UNCHANGED selectionVars
    /\ UNCHANGED acqVars

NextClassify ==
    OrganizeLanguageData \/ ProcessAllLanguages \/ GetFilesets \/ RunAgain

SpecClassify == InitClassify /\ [][NextClassify]_vars

\* ---- download_book / download_book_chapter over a classified catalog ----
InitAcquire ==
    /\ HarnessIdle
    /\ all_bibles = AcqCatalog
    /\ timing_filesets = AcqTimingPool
    /\ language_data = organize_language_data(<<>>, AcqCatalog)
    /\ LET st == process_all_languages(
                    [processed |-> {}, store |-> EmptyStore,
                     excl |-> EmptyExclusions],
                    language_data, timing_filesets)
       IN  /\ processed_filesets = st.processed
           /\ sorted_store = st.store
           /\ exclusions = st.excl
    /\ syncable_pairs_of =
          [i \in 1..Len(language_data) |->
              compute_syncable_pairs(language_data[i], timing_filesets)]
    /\ cpc = "processed"
    /\ sort_runs = 1
    /\ SelectionIdle
    /\ AcqIdle

CurChapter == chapters[ch_idx]

ACand == audio_candidates[a_idx]

AWork == get_distinct_id_from_metadata(ACand)

TCand == text_candidates[t_idx]

TWork == get_distinct_id_from_metadata(TCand)

Call(kind, fileset, work, path, result) ==
    [kind |-> kind, fileset |-> fileset, work |-> work, path |-> path,
     endpoint |-> IF kind = "timing" THEN dl_normalize_fileset_id(fileset)
                  ELSE fileset,
     result |-> result]

\* an adverse collaborator outcome is drawn only while the budget lasts
Fault(o) ==
    IF o = "ok" THEN faults' = faults
    ELSE faults < MaxFaults /\ faults' = faults + 1

Bump(h, chapter, field) == [h EXCEPT ![chapter][field] = @ + 1]

NextCandidate_mut_retry(idx) == idx

\* the `continue` after a logged failure: the for loop takes the next
\* candidate of the list
NextCandidate(idx) == idx + 1

MarkDownloaded_mut_forget(ids, distinct_id) == ids

\* downloaded_distinct_ids.add(distinct_id)
MarkDownloaded(ids, distinct_id) == ids \cup {distinct_id}

SkipExisting_mut_refetch(existing, force_flag) == FALSE

\* `if existing_audio and not force` / `if existing_text and not force`
SkipExisting(existing, force_flag) == existing # {} /\ ~force_flag

TimingOutcomes == {"ok", "not_available", "transport_error",
                   "save_failed", "save_failed_partial"}

TimingAttempt_mut_normalized(fs, o, work, fileset, path, log_errors) ==
    LET saved == o = "ok"
        wfail == o \in {"save_failed", "save_failed_partial"}
        fs1 == IF o = "ok"
               THEN WriteFile(fs, work, req_book, CurChapter,
                              dl_normalize_fileset_id(fileset),
                              "timing", "complete")
               ELSE IF o = "save_failed_partial"
               THEN WriteFile(fs, work, req_book, CurChapter,
                              dl_normalize_fileset_id(fileset),
                              "timing", "incomplete")
               ELSE fs
        lg1 == IF saved \/ ~log_errors THEN error_log
               ELSE log_download_error(error_log, req_book, CurChapter, "timing",
                        IF wfail THEN "timing_save_failed"
                        ELSE "no_timing_available", fileset, work)
        h1 == IF saved THEN hist ELSE Bump(hist, CurChapter, "timing")
    IN  [files |-> fs1, log |-> lg1, success |-> saved, hist |-> h1,
         call |-> Call("timing", fileset, work, path,
                       IF saved THEN "ok" ELSE o)]

\* get_timing_data + save_timing_file for (work, fileset) with outcome o;
\* log_errors is TRUE where the caller has the two else-branches that log
TimingAttempt(fs, o, work, fileset, path, log_errors) ==
    LET saved == o = "ok"
        wfail == o \in {"save_failed", "save_failed_partial"}
        fs1 == IF o = "ok"
               THEN WriteFile(fs, work, req_book, CurChapter, fileset,
                              "timing", "complete")
               ELSE IF o = "save_failed_partial"
               THEN WriteFile(fs, work, req_book, CurChapter, fileset,
                              "timing", "incomplete")
               ELSE fs
        lg1 == IF saved \/ ~log_errors THEN error_log
               ELSE log_download_error(error_log, req_book, CurChapter, "timing",
                        IF wfail THEN "timing_save_failed"
                        ELSE "no_timing_available", fileset, work)
        h1 == IF saved THEN hist ELSE Bump(hist, CurChapter, "timing")
    IN  [files |-> fs1, log |-> lg1, success |-> saved, hist |-> h1,
         call |-> Call("timing", fileset, work, path,
                       IF saved THEN "ok" ELSE o)]

\* download_book up to the first download_book_chapter call
DownloadBook ==
    /\ apc \in {"idle", "done", "crashed"}
    /\ runs < MaxRuns
    /\ runs' = runs + 1
    /\ \E f \in BOOLEAN, cl \in ChapterLists, b \in AcqBooks :
          LET ac == get_audio_filesets(sorted_store, load_exclusions(exclusions),
                                       AcqIso, b)
              tc == get_text_filesets(sorted_store, load_exclusions(exclusions),
                                      AcqIso, b)
          IN  /\ force' = f
              /\ chapters' = cl
              /\ req_iso' = AcqIso
              /\ req_book' = b
              /\ audio_candidates' = ac
              /\ text_candidates' = tc
              /\ apc' = IF ac = <<>> /\ tc = <<>> THEN "done" ELSE "audio"
    /\ ch_idx' = 1
    /\ a_idx' = 1
    /\ t_idx' = 1
    /\ downloaded_distinct_ids' = {}
    /\ downloaded_text_distinct_ids' = {}
    /\ any_audio_success' = FALSE
    /\ any_text_success' = FALSE
    /\ any_timing_success' = FALSE
    /\ counts' = ZeroCounts
    /\ calls' = <<>>
    /\ UNCHANGED <<files, error_log, faults, hist>>
    /\ UNCHANGED classifierVars
    /\ UNCHANGED harnessVars

\* `if distinct_id in downloaded_distinct_ids: continue`
AudioSkip ==
    /\ apc = "audio"
    /\ a_idx <= Len(audio_candidates)
    /\ AWork \in downloaded_distinct_ids
    /\ a_idx' = a_idx + 1
    /\ UNCHANGED <<force, chapters, ch_idx, apc, t_idx,
                   downloaded_distinct_ids, downloaded_text_distinct_ids,
                   any_audio_success, any_text_success, any_timing_success,
                   counts, files, error_log, runs, faults, calls, hist>>
    /\ UNCHANGED classifierVars
    /\ UNCHANGED harnessVars
    /\ UNCHANGED selectionVars

\* the `if existing_audio and not force` branch; existing_audio[0] is
\* whichever file the directory listing yields first
AudioExisting ==
    /\ apc = "audio"
    /\ a_idx <= Len(audio_candidates)
    /\ AWork \notin downloaded_distinct_ids
    /\ SkipExisting(Glob(files, AWork, req_book, CurChapter, "mp3"), force)
    /\ \E f \in Glob(files, AWork, req_book, CurChapter, "mp3") :
          LET existing_fileset_id == f.fileset
          IN  IF Exists(files, AWork, req_book, CurChapter,
                        existing_fileset_id, "timing")
              THEN /\ any_timing_success' = TRUE
                   /\ UNCHANGED <<files, error_log, faults, calls, hist>>
              ELSE IF has_timing_available(sorted_store, req_iso,
                                           existing_fileset_id)
              THEN \E o \in TimingOutcomes :
                      LET r == TimingAttempt(files, o, AWork,
                                             existing_fileset_id, "resume", FALSE)
                      IN  /\ Fault(o)
                          /\ files' = r.files
                          /\ error_log' = r.log
                          /\ hist' = r.hist
                          /\ calls' = Append(calls, r.call)
                          /\ any_timing_success' =
                                (any_timing_success \/ r.success)
              ELSE UNCHANGED <<any_timing_success, files, error_log, faults,
                               calls, hist>>
    /\ any_audio_success' = TRUE
    /\ downloaded_distinct_ids' = MarkDownloaded(downloaded_distinct_ids, AWork)
    /\ a_idx' = a_idx + 1
    /\ UNCHANGED <<force, chapters, ch_idx, apc, t_idx,
                   downloaded_text_distinct_ids, any_text_success, counts, runs>>
    /\ UNCHANGED classifierVars
    /\ UNCHANGED harnessVars
    /\ UNCHANGED selectionVars

\* get_audio_path returned None: log no_audio_available, try the next one
AudioNoPath ==
    /\ apc = "audio"
    /\ a_idx <= Len(audio_candidates)
    /\ AWork \notin downloaded_distinct_ids
    /\ ~SkipExisting(Glob(files, AWork, req_book, CurChapter, "mp3"), force)
    /\ \E o \in {"not_available", "transport_error"} :
          /\ Fault(o)
          /\ calls' = Append(calls, Call("audio", ACand.id, AWork, "fresh", o))
    /\ error_log' = log_download_error(error_log, req_book, CurChapter, "audio",
                                       "no_audio_available", ACand.id, AWork)
    /\ hist' = Bump(hist, CurChapter, "audio")
    /\ a_idx' = NextCandidate(a_idx)
    /\ UNCHANGED <<force, chapters, ch_idx, apc, t_idx,
                   downloaded_distinct_ids, downloaded_text_distinct_ids,
                   any_audio_success, any_text_success, any_timing_success,
                   counts, files, runs>>
    /\ UNCHANGED classifierVars
    /\ UNCHANGED harnessVars
    /\ UNCHANGED selectionVars

\* download_audio_file returned False: a RequestException before the file was
\* opened (request_failed) or while streaming into it (stream_failed)
AudioDownloadFailed ==
    /\ apc = "audio"
    /\ a_idx <= Len(audio_candidates)
    /\ AWork \notin downloaded_distinct_ids
    /\ ~SkipExisting(Glob(files, AWork, req_book, CurChapter, "mp3"), force)
    /\ \E o \in {"request_failed", "stream_failed"} :
          /\ Fault(o)
          /\ calls' = Append(calls, Call("audio", ACand.id, AWork, "fresh", o))
          /\ files' = IF o = "stream_failed"
                      THEN WriteFile(files, AWork, req_book, CurChapter,
                                     ACand.id, "mp3", "incomplete")
                      ELSE files
    /\ error_log' = log_download_error(error_log, req_book, CurChapter, "audio",
                                       "audio_download_failed", ACand.id, AWork)
    /\ hist' = Bump(hist, CurChapter, "audio")
    /\ a_idx' = NextCandidate(a_idx)
    /\ UNCHANGED <<force, chapters, ch_idx, apc, t_idx,
                   downloaded_distinct_ids, downloaded_text_distinct_ids,
                   any_audio_success, any_text_success, any_timing_success,
                   counts, runs>>
    /\ UNCHANGED classifierVars
    /\ UNCHANGED harnessVars
    /\ UNCHANGED selectionVars

\* download_audio_file raised OSError (mkdir/open: os_error; write:
\* os_error_write); only RequestException is caught, so the exception leaves
\* download_book_chapter, download_book and main
AudioWriteError ==
    /\ apc = "audio"
    /\ a_idx <= Len(audio_candidates)
    /\ AWork \notin downloaded_distinct_ids
    /\ ~SkipExisting(Glob(files, AWork, req_book, CurChapter, "mp3"), force)
    /\ \E o \in {"os_error", "os_error_write"} :
          /\ Fault(o)
          /\ calls' = Append(calls, Call("audio", ACand.id, AWork, "fresh", o))
          /\ files' = IF o = "os_error_write"
                      THEN WriteFile(files, AWork, req_book, CurChapter,
                                     ACand.id, "mp3", "incomplete")
                      ELSE files
    /\ hist' = Bump(hist, CurChapter, "audio")
    /\ apc' = "crashed"
    /\ UNCHANGED <<force, chapters, ch_idx, a_idx, t_idx,
                   downloaded_distinct_ids, downloaded_text_distinct_ids,
                   any_audio_success, any_text_success, any_timing_success,
                   counts, error_log, runs>>
    /\ UNCHANGED classifierVars
    /\ UNCHANGED harnessVars
    /\ UNCHANGED selectionVars

\* download_audio_file returned True, followed by the timing attempt
AudioDownloaded ==
    /\ apc = "audio"
    /\ a_idx <= Len(audio_candidates)
    /\ AWork \notin downloaded_distinct_ids
    /\ ~SkipExisting(Glob(files, AWork, req_book, CurChapter, "mp3"), force)
    /\ LET fs1 == WriteFile(files, AWork, req_book, CurChapter, ACand.id,
                            "mp3", "complete")
           c1 == Append(calls, Call("audio", ACand.id, AWork, "fresh", "ok"))
       IN  IF has_timing_available(sorted_store, req_iso, ACand.id)
           THEN IF ~Exists(files, AWork, req_book, CurChapter, ACand.id, "timing")
                   \/ force
                THEN \E o \in TimingOutcomes :
                        LET r == TimingAttempt(fs1, o, AWork, ACand.id,
                                               "fresh", TRUE)
                        IN  /\ Fault(o)
                            /\ files' = r.files
                            /\ error_log' = r.log
                            /\ hist' = r.hist
                            /\ calls' = Append(c1, r.call)
                            /\ any_timing_success' =
                                  (any_timing_success \/ r.success)
                ELSE /\ any_timing_success' = TRUE
                     /\ files' = fs1
                     /\ calls' = c1
                     /\ UNCHANGED <<error_log, faults, hist>>
           ELSE /\ files' = fs1
                /\ calls' = c1
                /\ UNCHANGED <<any_timing_success, error_log, faults, hist>>
    /\ any_audio_success' = TRUE
    /\ downloaded_distinct_ids' = MarkDownloaded(downloaded_distinct_ids, AWork)
    /\ a_idx' = a_idx + 1
    /\ UNCHANGED <<force, chapters, ch_idx, apc, t_idx,
                   downloaded_text_distinct_ids, any_text_success, counts, runs>>
    /\ UNCHANGED classifierVars
    /\ UNCHANGED harnessVars
    /\ UNCHANGED selectionVars

\* the audio loop is exhausted; the text loop starts
AudioLoopEnd ==
    /\ apc = "audio"
    /\ a_idx > Len(audio_candidates)
    /\ apc' = "text"
    /\ UNCHANGED <<force, chapters, ch_idx, a_idx, t_idx,
                   downloaded_distinct_ids, downloaded_text_distinct_ids,
                   any_audio_success, any_text_success, any_timing_success,
                   counts, files, error_log, runs, faults, calls, hist>>
    /\ UNCHANGED classifierVars
    /\ UNCHANGED harnessVars
    /\ UNCHANGED selectionVars

\* `if distinct_id in downloaded_text_distinct_ids: continue`
TextSkip ==
    /\ apc = "text"
    /\ t_idx <= Len(text_candidates)
    /\ TWork \in downloaded_text_distinct_ids
    /\ t_idx' = t_idx + 1
    /\ UNCHANGED <<force, chapters, ch_idx, apc, a_idx,
                   downloaded_distinct_ids, downloaded_text_distinct_ids,
                   any_audio_success, any_text_success, any_timing_success,
                   counts, files, error_log, runs, faults, calls, hist>>
    /\ UNCHANGED classifierVars
    /\ UNCHANGED harnessVars
    /\ UNCHANGED selectionVars

\* the `if existing_text and not force` branch
TextExisting ==
    /\ apc = "text"
    /\ t_idx <= Len(text_candidates)
    /\ TWork \notin downloaded_text_distinct_ids
    /\ SkipExisting(Glob(files, TWork, req_book, CurChapter, "txt"), force)
    /\ any_text_success' = TRUE
    /\ downloaded_text_distinct_ids' =
          MarkDownloaded(downloaded_text_distinct_ids, TWork)
    /\ t_idx' = t_idx + 1
    /\ UNCHANGED <<force, chapters, ch_idx, apc, a_idx,
                   downloaded_distinct_ids,
                   any_audio_success, any_timing_success,
                   counts, files, error_log, runs, faults, calls, hist>>
    /\ UNCHANGED classifierVars
    /\ UNCHANGED harnessVars
    /\ UNCHANGED selectionVars

\* get_text_content returned None: log no_text_available, try the next one
TextNoContent ==
    /\ apc = "text"
    /\ t_idx <= Len(text_candidates)
    /\ TWork \notin downloaded_text_distinct_ids
    /\ ~SkipExisting(Glob(files, TWork, req_book, CurChapter, "txt"), force)
    /\ \E o \in {"not_available", "transport_error"} :
          /\ Fault(o)
          /\ calls' = Append(calls, Call("text", TCand.id, TWork, "fresh", o))
    /\ error_log' = log_download_error(error_log, req_book, CurChapter, "text",
                                       "no_text_available", TCand.id, TWork)
    /\ hist' = Bump(hist, CurChapter, "text")
    /\ t_idx' = NextCandidate(t_idx)
    /\ UNCHANGED <<force, chapters, ch_idx, apc, a_idx,
                   downloaded_distinct_ids, downloaded_text_distinct_ids,
                   any_audio_success, any_text_success, any_timing_success,
                   counts, files, runs>>
    /\ UNCHANGED classifierVars
    /\ UNCHANGED harnessVars
    /\ UNCHANGED selectionVars

\* save_text_file returned False: mkdir/open failed (save_failed) or the
\* write failed after the file was opened (save_failed_partial)
TextSaveFailed ==
    /\ apc = "text"
    /\ t_idx <= Len(text_candidates)
    /\ TWork \notin downloaded_text_distinct_ids
    /\ ~SkipExisting(Glob(files, TWork, req_book, CurChapter, "txt"), force)
    /\ \E o \in {"save_failed", "save_failed_partial"} :
          /\ Fault(o)
          /\ calls' = Append(calls, Call("text", TCand.id, TWork, "fresh", o))
          /\ files' = IF o = "save_failed_partial"
                      THEN WriteFile(files, TWork, req_book, CurChapter,
                                     TCand.id, "txt", "incomplete")
                      ELSE files
    /\ error_log' = log_download_error(error_log, req_book, CurChapter, "text",
                                       "text_save_failed", TCand.id, TWork)
    /\ hist' = Bump(hist, CurChapter, "text")
    /\ t_idx' = NextCandidate(t_idx)
    /\ UNCHANGED <<force, chapters, ch_idx, apc, a_idx,
                   downloaded_distinct_ids, downloaded_text_distinct_ids,
                   any_audio_success, any_text_success, any_timing_success,
                   counts, runs>>
    /\ UNCHANGED classifierVars
    /\ UNCHANGED harnessVars
    /\ UNCHANGED selectionVars

\* save_text_file returned True
TextSaved ==
    /\ apc = "text"
    /\ t_idx <= Len(text_candidates)
    /\ TWork \notin downloaded_text_distinct_ids
    /\ ~SkipExisting(Glob(files, TWork, req_book, CurChapter, "txt"), force)
    /\ files' = WriteFile(files, TWork, req_book, CurChapter, TCand.id,
                          "txt", "complete")
    /\ calls' = Append(calls, Call("text", TCand.id, TWork, "fresh", "ok"))
    /\ any_text_success' = TRUE
    /\ downloaded_text_distinct_ids' =
          MarkDownloaded(downloaded_text_distinct_ids, TWork)
    /\ t_idx' = t_idx + 1
    /\ UNCHANGED <<force, chapters, ch_idx, apc, a_idx,
                   downloaded_distinct_ids,
                   any_audio_success, any_timing_success,
                   counts, error_log, runs, faults, hist>>
    /\ UNCHANGED classifierVars
    /\ UNCHANGED harnessVars
    /\ UNCHANGED selectionVars

\* download_book_chapter returns; download_book counts the chapter and
\* calls it for the next chapter, or returns after the last one
ChapterReturn ==
    /\ apc = "text"
    /\ t_idx > Len(text_candidates)
    /\ counts' = [audio |-> counts.audio + (IF any_audio_success THEN 1 ELSE 0),
                  text |-> counts.text + (IF any_text_success THEN 1 ELSE 0),
                  timing |-> counts.timing + (IF any_timing_success THEN 1 ELSE 0)]
    /\ IF ch_idx < Len(chapters)
       THEN /\ ch_idx' = ch_idx + 1
            /\ apc' = "audio"
            /\ a_idx' = 1
            /\ t_idx' = 1
            /\ downloaded_distinct_ids' = {}
            /\ downloaded_text_distinct_ids' = {}
            /\ any_audio_success' = FALSE
            /\ any_text_success' = FALSE
            /\ any_timing_success' = FALSE
            /\ calls' = <<>>
       ELSE /\ apc' = "done"
            /\ UNCHANGED <<ch_idx, a_idx, t_idx, downloaded_distinct_ids,
                           downloaded_text_distinct_ids, any_audio_success,
                           any_text_success, any_timing_success, calls>>
    /\ UNCHANGED <<force, chapters, files, error_log, runs, faults, hist>>
    /\ UNCHANGED classifierVars
    /\ UNCHANGED harnessVars
    /\ UNCHANGED selectionVars

Next ==
    \/ DownloadBook
    \/ AudioSkip \/ AudioExisting \/ AudioNoPath \/ AudioDownloadFailed
    \/ AudioWriteError \/ AudioDownloaded \/ AudioLoopEnd
    \/ TextSkip \/ TextExisting \/ TextNoContent \/ TextSaveFailed
    \/ TextSaved \/ ChapterReturn

Spec == InitAcquire /\ [][Next]_vars

(***************************************************************************)
(* Properties                                                              *)
(***************************************************************************)

\* C1: after classification, no audio fileset whose metadata record has
\* has_timing = TRUE is the audio side of a syncable pair of its language.
C1_TimingExcludesSync ==
    cpc = "processed" =>
        \A i \in 1..Len(language_data) :
            \A k \in 1..Len(syncable_pairs_of[i]) :
                LET key == <<language_data[i].iso,
                             syncable_pairs_of[i][k].audio_fileset_id>>
                IN  /\ key \in DOMAIN sorted_store
                    /\ ~sorted_store[key].has_timing

\* C1 witness: a timing-capable audio fileset with a prefix-matching text
\* fileset was classified in a language that also produced a syncable pair.
C1_Witness ==
    /\ cpc = "processed"
    /\ \E i \in 1..Len(language_data) :
          /\ syncable_pairs_of[i] # <<>>
          /\ \E j \in 1..Len(language_data[i].audio_filesets) :
                LET id == language_data[i].audio_filesets[j]
                IN  /\ sorted_store[<<language_data[i].iso, id>>].has_timing
                    /\ sorted_store[<<language_data[i].iso, id>>].has_audio
                    /\ match_audio_to_text(id, language_data[i].text_filesets) # <<>>

\* C2: an identifier of length >= 7 whose 7th character is P resolves to
\* PARTIAL whatever the declared size.
C2_PartialNeverOverridden ==
    (ret_book_set # "UNSET" /\ Len(arg_fileset_id) >= 7 /\ arg_fileset_id[7] = "P")
        => ret_book_set = "PARTIAL"

\* C2 witness: a P identifier called with a size that would force FULL.
C2_Witness ==
    /\ ret_book_set = "PARTIAL"
    /\ Len(arg_fileset_id) >= 7
    /\ arg_fileset_id[7] = "P"
    /\ arg_size = "C"

\* The resolution table of the classifier's contract: rows are the scope the
\* identifier resolves to, columns the class of the declared size.
RefIdScope(fileset_id) ==
    IF Len(fileset_id) < 7 THEN "unresolved"
    ELSE LET c == fileset_id[7]
         IN  IF c \in {"O", "N", "C", "P", "S"}
             THEN [O |-> "OT", N |-> "NT", C |-> "FULL", P |-> "PARTIAL",
                   S |-> "STORY"][c]
             ELSE "unresolved"

RefSizeClass(size) ==
    IF size \in {"C", "NTOTP"} THEN "full"
    ELSE IF size \in {"NT", "NTP"} THEN "nt"
    ELSE IF size \in {"OT", "OTP"} THEN "ot"
    ELSE "other"

RefTable ==
    [full  |-> [OT |-> "FULL", NT |-> "FULL", FULL |-> "FULL",
                PARTIAL |-> "PARTIAL", STORY |-> "FULL", unresolved |-> "FULL"],
     nt    |-> [OT |-> "OT", NT |-> "NT", FULL |-> "FULL",
                PARTIAL |-> "PARTIAL", STORY |-> "NT", unresolved |-> "NT"],
     ot    |-> [OT |-> "OT", NT |-> "NT", FULL |-> "FULL",
                PARTIAL |-> "PARTIAL", STORY |-> "OT", unresolved |-> "OT"],
     other |-> [OT |-> "OT", NT |-> "NT", FULL |-> "FULL",
                PARTIAL |-> "PARTIAL", STORY |-> "STORY",
                unresolved |-> "VARIOUS"]]

RefBookSet(fileset_id, size) == RefTable[RefSizeClass(size)][RefIdScope(fileset_id)]

\* C3: determine_book_set agrees with the resolution table on every
\* (identifier, size) pair.
C3_BookSetMatchesReference ==
    ret_book_set # "UNSET" => ret_book_set = RefBookSet(arg_fileset_id, arg_size)

\* C3 witness: the scenario AAAMLTN1DA with empty size resolved to NT.
C3_Witness ==
    /\ arg_fileset_id = P_AAAMLT \o <<"N", "1", "D", "A">>
    /\ arg_size = ""
    /\ ret_book_set = "NT"

\* the scope coverage rule as the contract states it
RefCovers(book_set, book_id) ==
    \/ book_set = "FULL"
    \/ book_set = "OT" /\ book_id \in OT_BOOKS
    \/ book_set = "NT" /\ book_id \in NT_BOOKS

InNoExclusionCategory(fileset_id) ==
    /\ \A i \in 1..Len(exclusions.sa_versions) :
          exclusions.sa_versions[i].fileset_id # fileset_id
    /\ \A i \in 1..Len(exclusions.partial_content) :
          exclusions.partial_content[i].fileset_id # fileset_id
    /\ \A i \in 1..Len(exclusions.story_adaptations) :
          exclusions.story_adaptations[i].fileset_id # fileset_id

\* C4: every candidate returned for a requested book has a scope covering
\* the book and belongs to none of the three exclusion categories.
C4_CandidatesCoveredAndNotExcluded ==
    req_book # "" =>
        /\ \A i \in 1..Len(audio_candidates) :
              /\ RefCovers(audio_candidates[i].book_set, req_book)
              /\ InNoExclusionCategory(audio_candidates[i].id)
        /\ \A i \in 1..Len(text_candidates) :
              /\ RefCovers(text_candidates[i].book_set, req_book)
              /\ InNoExclusionCategory(text_candidates[i].id)

\* C4 witness: GEN was requested in a language holding an NT-scoped audio
\* fileset in no exclusion category, and another audio fileset was returned.
C4_Witness ==
    /\ req_book = "GEN"
    /\ audio_candidates # <<>>
    /\ \E k \in DOMAIN sorted_store :
          /\ k[1] = req_iso
          /\ sorted_store[k].has_audio
          /\ sorted_store[k].book_set = "NT"
          /\ InNoExclusionCategory(sorted_store[k].id)

\* dramatized: the identifier without its format suffix has '2' as its
\* third-from-last character
RefIsDramatized(fileset_id) ==
    LET base == sorter_normalize_fileset_id(fileset_id)
    IN  Len(base) >= 3 /\ base[Len(base) - 2] = "2"

\* compressed format: the identifier carries an opus suffix
RefIsCompressed(fileset_id) ==
    EndsWith(fileset_id, S_opus16) \/ EndsWith(fileset_id, S_opus32)

\* 0 plain non-dramatized, 1 compressed non-dramatized, 2 plain dramatized,
\* 3 compressed dramatized
RefAudioRank(fileset_id) ==
    (IF RefIsDramatized(fileset_id) THEN 2 ELSE 0)
        + (IF RefIsCompressed(fileset_id) THEN 1 ELSE 0)

\* C13: in the list get_audio_filesets returns no candidate precedes one of
\* a better class, the classes being, best first: plain non-dramatized,
\* compressed non-dramatized, plain dramatized, compressed dramatized.
C13_AudioPriorityOrder ==
    \A i \in 1..Len(audio_candidates) : \A j \in 1..Len(audio_candidates) :
        i < j => RefAudioRank(audio_candidates[i].id)
                    <= RefAudioRank(audio_candidates[j].id)

\* C13 witness: a returned list holding candidates of all four classes.
C13_Witness ==
    {RefAudioRank(audio_candidates[i].id) : i \in 1..Len(audio_candidates)}
        = {0, 1, 2, 3}

\* 0 plain text (_ET), 1 structured markup (-usx), 2 JSON-tagged (-json),
\* 3 any other identifier form
RefTextRank(fileset_id) ==
    IF EndsWith(fileset_id, S_ET) THEN 0
    ELSE IF EndsWith(fileset_id, S_usx) THEN 1
    ELSE IF EndsWith(fileset_id, S_json) THEN 2
    ELSE 3

\* C14: in the list get_text_filesets returns every plain-text candidate
\* precedes every usx candidate, which precedes every JSON candidate.
C14_TextPriorityOrder ==
    \A i \in 1..Len(text_candidates) : \A j \in 1..Len(text_candidates) :
        (/\ RefTextRank(text_candidates[i].id) < RefTextRank(text_candidates[j].id)
         /\ RefTextRank(text_candidates[j].id) <= 2) => i < j

\* C14 witness: a returned list holding a plain-text, a usx and a JSON
\* candidate.
C14_Witness ==
    {0, 1, 2} \subseteq
        {RefTextRank(text_candidates[i].id) : i \in 1..Len(text_candidates)}

\* the first min(7, len(T)) characters of T are the first characters of A
RefPrefixMatch(audio_id, text_id) ==
    LET n == IF Len(text_id) < 7 THEN Len(text_id) ELSE 7
    IN  /\ Len(audio_id) >= n
        /\ \A k \in 1..n : audio_id[k] = text_id[k]

\* res lists, in ascending order, the elements of text_ids that match
\* audio_id, each as often as it occurs in text_ids
ExactlyTheMatches(res, audio_id, text_ids) ==
    /\ \A i \in 1..Len(res) : \A j \in 1..Len(res) :
          i < j => ~StrLess(res[j], res[i])
    /\ \A t \in Range(text_ids) \cup Range(res) :
          Cardinality({i \in 1..Len(res) : res[i] = t})
            = IF RefPrefixMatch(audio_id, t)
              THEN Cardinality({i \in 1..Len(text_ids) : text_ids[i] = t})
              ELSE 0

RefGroupKey(fs_id) ==
    [k \in 1..(Len(fs_id) - 1) |->
        IF k < Len(fs_id) - 2 THEN fs_id[k] ELSE fs_id[k + 1]]

\* fs_id is a dramatized variant ('2') whose group in ids also holds a
\* non-dramatized variant ('1')
RefDramaConflict(fs_id, ids) ==
    /\ Len(fs_id) >= 3
    /\ fs_id[Len(fs_id) - 2] = "2"
    /\ \E o \in ids :
          /\ Len(o) >= 3
          /\ o[Len(o) - 2] = "1"
          /\ RefGroupKey(o) = RefGroupKey(fs_id)

\* the audio identifiers that get a pair entry: not timing-capable, not
\* removed by the dramatization filter from among the identifiers that are
\* not timing-capable, and matched by at least one text identifier
RefPairedAudio(audio_ids, text_ids, tf) ==
    LET remaining == {a \in Range(audio_ids) :
                         sorter_normalize_fileset_id(a) \notin tf}
    IN  {a \in remaining :
            /\ ~RefDramaConflict(a, remaining)
            /\ Len(a) >= 6
            /\ \E t \in Range(text_ids) : RefPrefixMatch(a, t)}

C17_FilterKeepsAllButConflicts ==
    "filter" \in m_done =>
        Range(ret_filtered)
            = {a \in Range(m_audio_ids) : ~RefDramaConflict(a, Range(m_audio_ids))}

\* C18: the filter applied to its own output returns the same set of
\* identifiers.
C18_FilterIdempotent ==
    "refilter" \in m_done => Range(ret_refiltered) = Range(ret_filtered)

\* C18 witness: the first application removed a dramatized identifier and
\* kept several others, and the second application was made.
C18_Witness ==
    /\ "refilter" \in m_done
    /\ Len(ret_filtered) >= 2
    /\ Len(ret_filtered) < Len(m_audio_ids)
    /\ \E a \in Range(m_audio_ids) : RefDramaConflict(a, Range(m_audio_ids))

\* the known audio-format suffixes, longest-specific first: the opus
\* variants (the bare bitrate tag 16 counted among them), the bitrate-tagged
\* mp3 variants, plain mp3
RefAudioFormatSuffixes ==
    <<S_opus16, S_opus32, S_16, S_mp3_64, S_mp3_128, S_mp3>>

\* the identifier without the first suffix of the list it ends with
RefStripAudioFormat(fileset_id) ==
    LET hits == {i \in 1..Len(RefAudioFormatSuffixes) :
                    /\ Len(fileset_id) >= Len(RefAudioFormatSuffixes[i])
                    /\ SubSeq(fileset_id,
                              Len(fileset_id) - Len(RefAudioFormatSuffixes[i]) + 1,
                              Len(fileset_id)) = RefAudioFormatSuffixes[i]}
    IN  IF hits = {} THEN fileset_id
        ELSE LET first == CHOOSE i \in hits : \A j \in hits : i <= j
             IN  SubSeq(fileset_id, 1,
                        Len(fileset_id) - Len(RefAudioFormatSuffixes[first]))

\* C19: in every metadata record has_timing is true iff the identifier,
\* with its audio-format suffix (opus variant, -mp3-64, -mp3-128 or -mp3)
\* stripped, is in the timing-capable set.
C19_HasTimingIffStrippedInSet ==
    cpc = "processed" =>
        \A key \in DOMAIN sorted_store :
            sorted_store[key].has_timing
                = (RefStripAudioFormat(sorted_store[key].id) \in timing_filesets)

\* the syncable pairs computed for the language of a record
PairsOfIso(iso) ==
    LET i == CHOOSE j \in 1..Len(language_data) : language_data[j].iso = iso
    IN  syncable_pairs_of[i]

\* C20: in every metadata record the data-source tag of an audio fileset is
\* TIMING if it is flagged has_timing, else SYNC if it is the audio side of
\* a syncable pair of its language, else none; the tag of a text fileset is
\* SYNC if some syncable pair of its language lists it on the text side,
\* else none.
C20_DataSourceTag ==
    cpc = "processed" =>
        \A key \in DOMAIN sorted_store :
            LET r == sorted_store[key]
                pairs == PairsOfIso(key[1])
            IN  r.data_source =
                  IF r.has_audio
                  THEN IF r.has_timing THEN "timing"
                       ELSE IF \E k \in 1..Len(pairs) :
                                  pairs[k].audio_fileset_id = r.id
                       THEN "sync" ELSE "None"
                  ELSE IF \E k \in 1..Len(pairs) :
                             r.id \in Range(pairs[k].text_fileset_id)
                  THEN "sync" ELSE "None"

\* C20 witness: one language's records hold an audio fileset tagged TIMING,
\* an audio fileset tagged SYNC, a text fileset tagged SYNC and a fileset
\* with no tag.
C20_Witness ==
    /\ cpc = "processed"
    /\ \E iso \in {"eng"} :
          /\ \E key \in DOMAIN sorted_store :
                /\ key[1] = iso /\ sorted_store[key].has_audio
                /\ sorted_store[key].data_source = "timing"
          /\ \E key \in DOMAIN sorted_store :
                /\ key[1] = iso /\ sorted_store[key].has_audio
                /\ sorted_store[key].data_source = "sync"
          /\ \E key \in DOMAIN sorted_store :
                /\ key[1] = iso /\ sorted_store[key].has_text
                /\ sorted_store[key].data_source = "sync"
          /\ \E key \in DOMAIN sorted_store :
                /\ key[1] = iso
                /\ sorted_store[key].data_source = "None"

\* the (entry, fileset) positions of the catalog that carry a language code
\* and a non-empty fileset identifier, in catalog order
CatalogOcc ==
    {o \in (1..Len(all_bibles)) \X (1..4) :
        /\ o[2] <= Len(all_bibles[o[1]].filesets)
        /\ all_bibles[o[1]].iso # ""
        /\ all_bibles[o[1]].filesets[o[2]].id # <<>>}

OccIso(o) == all_bibles[o[1]].iso

OccFileset(o) == all_bibles[o[1]].filesets[o[2]]

OccBefore(o1, o2) == o1[1] < o2[1] \/ (o1[1] = o2[1] /\ o1[2] < o2[2])

\* C21: after classification the metadata records are keyed by exactly the
\* (language, fileset id) pairs of the catalog: one record for every unique
\* non-empty fileset identifier of a language, whatever its declared type.
C21_OneRecordPerIdentifier ==
    cpc = "processed" =>
        DOMAIN sorted_store = {<<OccIso(o), OccFileset(o).id>> : o \in CatalogOcc}

\* the first occurrence of the identifier among the language's entries
FirstOcc(iso, fileset_id) ==
    CHOOSE o \in CatalogOcc :
        /\ OccIso(o) = iso /\ OccFileset(o).id = fileset_id
        /\ \A o2 \in CatalogOcc :
              (OccIso(o2) = iso /\ OccFileset(o2).id = fileset_id /\ o2 # o)
                  => OccBefore(o, o2)

\* C22: the metadata record of an identifier is built from its first
\* occurrence in catalog order: it carries the work, the declared type and
\* the size of that occurrence, whatever later occurrences say.
C22_FirstOccurrenceWins ==
    cpc = "processed" =>
        \A key \in DOMAIN sorted_store :
            LET o == FirstOcc(key[1], key[2])
                r == sorted_store[key]
            IN  /\ r.bible_abbr = all_bibles[o[1]].abbr
                /\ r.type = OccFileset(o).type
                /\ r.size = OccFileset(o).size

\* the three exclusion categories as the contract states them
RefInCategory(cat, fileset) ==
    IF cat = "sa_versions"
    THEN Len(fileset.id) >= 10 /\ SubSeq(fileset.id, 9, 10) = S_SA
    ELSE IF cat = "partial_content"
    THEN RefBookSet(fileset.id, fileset.size) = "PARTIAL"
    ELSE \/ Contains(Lower(fileset.type), W_story)
         \/ Contains(Lower(fileset.type), W_video)

ExclusionCategories == {"sa_versions", "partial_content", "story_adaptations"}

HasExclusionRecord(cat, iso, fileset) ==
    \E i \in 1..Len(exclusions[cat]) :
        /\ exclusions[cat][i].iso = iso
        /\ exclusions[cat][i].fileset_id = fileset.id
        /\ exclusions[cat][i].type = fileset.type

\* C23: after classification every catalog fileset has an exclusion record
\* in exactly the categories it matches: streaming-only (SA as content-type
\* suffix), partial content (scope PARTIAL), story/video adaptation (type
\* contains "story" or "video", case-insensitively); a fileset matching no
\* category has no record.
C23_ExclusionPerCategory ==
    cpc = "processed" =>
        \A o \in CatalogOcc : \A cat \in ExclusionCategories :
            HasExclusionRecord(cat, OccIso(o), OccFileset(o))
                <=> RefInCategory(cat, OccFileset(o))

\* the first catalog entry of a language code
FirstEntry(iso) ==
    all_bibles[CHOOSE b \in 1..Len(all_bibles) :
                  /\ all_bibles[b].iso = iso
                  /\ \A b2 \in 1..(b - 1) : all_bibles[b2].iso # iso]

\* the language record the contract describes: built from the first entry,
\* the native name defaulting to the canonical name
RefLanguageRecord(iso) ==
    [iso |-> iso, name |-> FirstEntry(iso).language,
     autonym |-> IF FirstEntry(iso).autonym = "" THEN FirstEntry(iso).language
                 ELSE FirstEntry(iso).autonym]

\* C27: every metadata record of a language carries the one language record
\* built from the first catalog entry of that code, its autonym being the
\* canonical name when the entry supplies none, and get_language_info
\* returns that same record.
C27_AutonymDefaultsToName ==
    cpc = "processed" =>
        \A key \in DOMAIN sorted_store :
            /\ sorted_store[key].language = <<RefLanguageRecord(key[1])>>
            /\ get_language_info(sorted_store, key[1])
                  = {<<RefLanguageRecord(key[1])>>}

C29_SameIdentifierSentAsFound ==
    cpc = "processed" =>
        \A key \in DOMAIN sorted_store :
            (sorted_store[key].has_audio /\ sorted_store[key].timing_available)
                => /\ sorter_normalize_fileset_id(sorted_store[key].id)
                          \in timing_filesets
                   /\ dl_normalize_fileset_id(sorted_store[key].id)
                          = sorter_normalize_fileset_id(sorted_store[key].id)

(***************************************************************************)
(* Properties of the acquisition runs                                      *)
(***************************************************************************)
CallIdx(cs, kind, work) ==
    {i \in 1..Len(cs) : cs[i].kind = kind /\ cs[i].work = work}

OkCallIdx(cs, kind, work) ==
    {i \in CallIdx(cs, kind, work) : cs[i].result = "ok"}

KindIdx(cs, kind) == {i \in 1..Len(cs) : cs[i].kind = kind}

WorksIn(cs) == {cs[i].work : i \in 1..Len(cs)}

Ext(kind) == IF kind = "audio" THEN "mp3" ELSE "txt"

\* the step stays inside one download_book_chapter call
InChapter ==
    /\ apc \in {"audio", "text"}
    /\ runs' = runs
    /\ ch_idx' = ch_idx

\* the work already has its download for this content type: one was fetched
\* and written in this call, or one is on disk and force is not set
Settled(kind, work) ==
    \/ OkCallIdx(calls, kind, work) # {}
    \/ ~force /\ Glob(files, work, req_book, CurChapter, Ext(kind)) # {}

\* C5: within one download_book_chapter call at most one audio and at most
\* one text fetch-and-write succeeds per work identity, and once a work has
\* its download for a content type no further fetch of that type is issued
\* for it.
C5_OneSuccessPerWork ==
    [][\A kind \in {"audio", "text"} : \A w \in WorksIn(calls') :
          /\ Cardinality(OkCallIdx(calls', kind, w)) <= 1
          /\ (InChapter /\ Settled(kind, w)) =>
                CallIdx(calls', kind, w) = CallIdx(calls, kind, w)]_vars

\* C5 witness: under force a work's first audio candidate was fetched and
\* written, and a later audio candidate of the same work was passed over
\* without a fetch.
C5_Witness ==
    /\ apc = "audio"
    /\ force
    /\ \E i \in 1..Len(audio_candidates) : \E j \in 1..Len(audio_candidates) :
          /\ i < j
          /\ j < a_idx
          /\ get_distinct_id_from_metadata(audio_candidates[i])
                = get_distinct_id_from_metadata(audio_candidates[j])
          /\ \E c \in OkCallIdx(calls, "audio",
                    get_distinct_id_from_metadata(audio_candidates[i])) :
                calls[c].fileset = audio_candidates[i].id
          /\ \A c \in 1..Len(calls) : calls[c].fileset # audio_candidates[j].id

\* candidates of one work, in priority order
CandIdx(cands, work) ==
    {i \in 1..Len(cands) : get_distinct_id_from_metadata(cands[i]) = work}

Attempted(cs, kind, fileset_id) ==
    \E c \in 1..Len(cs) : cs[c].kind = kind /\ cs[c].fileset = fileset_id

Succeeded(cs, kind, fileset_id) ==
    \E c \in 1..Len(cs) :
        cs[c].kind = kind /\ cs[c].fileset = fileset_id /\ cs[c].result = "ok"

\* the work's artifact is the one of its first candidate that succeeded, and
\* every candidate before it was tried
FirstSuccessWins(cands, kind, work) ==
    \E i \in CandIdx(cands, work) :
        /\ Succeeded(calls, kind, cands[i].id)
        /\ \A j \in CandIdx(cands, work) :
              j < i => (Attempted(calls, kind, cands[j].id)
                        /\ ~Succeeded(calls, kind, cands[j].id))
        /\ \E f \in Glob(files, work, req_book, CurChapter, Ext(kind)) :
              f.fileset = cands[i].id /\ f.content = "complete"

\* no candidate of the work succeeded although every one of them was tried
AllTriedAndFailed(cands, kind, work) ==
    \A i \in CandIdx(cands, work) :
        Attempted(calls, kind, cands[i].id) /\ ~Succeeded(calls, kind, cands[i].id)

\* C6: a run that started with no artifacts ends, for every work identity,
\* either with the artifact of the first candidate whose fetch and write
\* succeed or with every candidate of that work tried and failed, whatever
\* happened to the candidates of other works.
C6_FirstSuccessPerWork ==
    (runs = 1 /\ apc \in {"done", "crashed"}) =>
        /\ \A w \in {get_distinct_id_from_metadata(audio_candidates[i]) :
                        i \in 1..Len(audio_candidates)} :
              \/ FirstSuccessWins(audio_candidates, "audio", w)
              \/ AllTriedAndFailed(audio_candidates, "audio", w)
        /\ \A w \in {get_distinct_id_from_metadata(text_candidates[i]) :
                        i \in 1..Len(text_candidates)} :
              \/ FirstSuccessWins(text_candidates, "text", w)
              \/ AllTriedAndFailed(text_candidates, "text", w)

HasComplete(work, kind) ==
    \E f \in Glob(files, work, req_book, CurChapter, Ext(kind)) :
        f.content = "complete"

\* C7 as stated: when a candidate is reached whose work already has a
\* complete output file of the content type and force is not set, the step
\* issues no network call at all and the content type is reported
\* successful.
C7_ZeroNetworkCalls ==
    [][/\ (/\ apc = "audio" /\ a_idx <= Len(audio_candidates) /\ ~force
           /\ HasComplete(AWork, "audio"))
          => (/\ calls' = calls
              /\ any_audio_success')
       /\ (/\ apc = "text" /\ t_idx <= Len(text_candidates) /\ ~force
           /\ HasComplete(TWork, "text"))
          => (/\ calls' = calls
              /\ any_text_success')]_vars

\* C7 amended: when a candidate is reached whose work already has a complete
\* output file of the content type and force is not set, the step issues no
\* fetch of that content type and the content type is reported successful;
\* for existing audio a timing fetch may still be issued.
C7_ExistingNotRefetched ==
    [][/\ (/\ apc = "audio" /\ a_idx <= Len(audio_candidates) /\ ~force
           /\ HasComplete(AWork, "audio"))
          => (/\ KindIdx(calls', "audio") = KindIdx(calls, "audio")
              /\ any_audio_success')
       /\ (/\ apc = "text" /\ t_idx <= Len(text_candidates) /\ ~force
           /\ HasComplete(TWork, "text"))
          => (/\ calls' = calls
              /\ any_text_success')]_vars

\* C7 witness: in a second run without force the audio of a work was found
\* on disk, complete, and the work was marked done with no audio fetch.
C7_Witness ==
    /\ runs = 2
    /\ ~force
    /\ apc = "audio"
    /\ any_audio_success
    /\ KindIdx(calls, "audio") = {}
    /\ \E w \in downloaded_distinct_ids : HasComplete(w, "audio")

OnlyIncomplete(work, kind) ==
    /\ Glob(files, work, req_book, CurChapter, Ext(kind)) # {}
    /\ \A f \in Glob(files, work, req_book, CurChapter, Ext(kind)) :
          f.content = "incomplete"

\* C8: when the only output files of a unit are partially written or
\* zero-size and force is not set, the existence check does not skip the
\* unit: the candidate is fetched and success is not reported on the basis
\* of the file's presence.
C8_IncompleteNotSkipped ==
    [][/\ (/\ apc = "audio" /\ a_idx <= Len(audio_candidates) /\ ~force
           /\ AWork \notin downloaded_distinct_ids
           /\ OnlyIncomplete(AWork, "audio"))
          => KindIdx(calls', "audio") # KindIdx(calls, "audio")
       /\ (/\ apc = "text" /\ t_idx <= Len(text_candidates) /\ ~force
           /\ TWork \notin downloaded_text_distinct_ids
           /\ OnlyIncomplete(TWork, "text"))
          => KindIdx(calls', "text") # KindIdx(calls, "text")]_vars

\* number of records of one content type under the (book, chapter) entry
LoggedErrors(errlog, book_id, chapter, kind) ==
    LET hits == {i \in 1..Len(errlog) :
                    errlog[i].book = book_id /\ errlog[i].chapter = chapter}
    IN  IF hits = {} THEN 0
        ELSE LET e == errlog[CHOOSE i \in hits : TRUE]
             IN  IF kind = "audio" THEN Len(e.audio_errors)
                 ELSE IF kind = "text" THEN Len(e.text_errors)
                 ELSE Len(e.timing_errors)

\* C9: every failed fetch has one error record under its (book, chapter)
\* entry and content-type list, and the orchestrator goes on to the next
\* candidate.
C9_EveryFailureLogged ==
    /\ apc # "crashed"
    /\ \A ch \in AllChapters : \A kind \in {"audio", "text", "timing"} :
          \A b \in AcqBooks : hist[ch][kind] = LoggedErrors(error_log, b, ch, kind)

WriteFailures == {"os_error", "os_error_write", "save_failed",
                  "save_failed_partial"}

\* C10: a step in which a local write fails appends an error record for the
\* content type, leaves the content type's success flag as it was, and does
\* not end the run.
C10_WriteFailureRecordedNotFatal ==
    [][(InChapter /\ Len(calls') > Len(calls)) =>
          \A c \in (Len(calls) + 1)..Len(calls') :
              calls'[c].result \in WriteFailures =>
                  /\ apc' # "crashed"
                  /\ LoggedErrors(error_log', req_book, CurChapter,
                                  calls'[c].kind)
                        = LoggedErrors(error_log, req_book, CurChapter,
                                       calls'[c].kind) + 1
                  /\ calls'[c].kind = "audio" =>
                        any_audio_success' = any_audio_success
                  /\ calls'[c].kind = "text" =>
                        any_text_success' = any_text_success
                  /\ calls'[c].kind = "timing" =>
                        any_timing_success' = any_timing_success]_vars

\* the calls a step adds to those of the current download_book_chapter call
NewCallIdx == (Len(calls) + 1)..Len(calls')

\* the identifier, normalised, is in the timing list the classifier was given
TimingCapable(fileset_id) ==
    sorter_normalize_fileset_id(fileset_id) \in timing_filesets

\* C11: a timing fetch for a fileset is issued only in the step that wrote
\* that fileset's audio for the unit or found it on disk, and only when the
\* metadata marks that exact fileset timing-capable; whatever the timing
\* outcome the step reports audio success and marks the work done, and once
\* a timing fetch was issued for a work no further audio or timing fetch is
\* issued for it in the call.
C11_TimingAttachedToAudio ==
    [][InChapter =>
          /\ \A c \in NewCallIdx : calls'[c].kind = "timing" =>
                /\ TimingCapable(calls'[c].fileset)
                /\ \/ /\ calls'[c].path = "fresh"
                      /\ c - 1 \in NewCallIdx
                      /\ calls'[c - 1].kind = "audio"
                      /\ calls'[c - 1].fileset = calls'[c].fileset
                      /\ calls'[c - 1].result = "ok"
                   \/ /\ calls'[c].path = "resume"
                      /\ Exists(files, calls'[c].work, req_book, CurChapter,
                                calls'[c].fileset, "mp3")
                /\ any_audio_success'
                /\ calls'[c].work \in downloaded_distinct_ids'
          /\ \A w \in WorksIn(calls) : CallIdx(calls, "timing", w) # {} =>
                /\ CallIdx(calls', "audio", w) = CallIdx(calls, "audio", w)
                /\ CallIdx(calls', "timing", w) = CallIdx(calls, "timing", w)]_vars

\* C11 witness: a timing fetch failed for a work, the audio of the work
\* counts as done, and a later audio candidate of the same work was passed
\* over without any fetch.
C11_Witness ==
    /\ apc = "audio"
    /\ any_audio_success
    /\ \E c \in 1..Len(calls) :
          /\ calls[c].kind = "timing"
          /\ calls[c].result # "ok"
          /\ calls[c].work \in downloaded_distinct_ids
          /\ \E j \in CandIdx(audio_candidates, calls[c].work) :
                /\ j < a_idx
                /\ audio_candidates[j].id # calls[c].fileset
                /\ ~Attempted(calls, "audio", audio_candidates[j].id)
                /\ ~Attempted(calls, "timing", audio_candidates[j].id)

IsPrefix(a, b) == Len(a) <= Len(b) /\ SubSeq(b, 1, Len(a)) = a

NoContentErrorTypes ==
    {"no_audio_available", "no_text_available", "no_timing_available"}

\* error kind of the latest record of one content type under the
\* (book, chapter) entry; "" when there is none
LastErrorType(errlog, book_id, chapter, kind) ==
    LET hits == {i \in 1..Len(errlog) :
                    errlog[i].book = book_id /\ errlog[i].chapter = chapter}
    IN  IF hits = {} THEN ""
        ELSE LET e == errlog[CHOOSE i \in hits : TRUE]
                 l == IF kind = "audio" THEN e.audio_errors
                      ELSE IF kind = "text" THEN e.text_errors
                      ELSE e.timing_errors
             IN  IF l = <<>> THEN "" ELSE l[Len(l)].error_type

\* the step went on to the next candidate of the running chapter
MovedOn(kind) ==
    /\ apc' = apc
    /\ IF kind = "text" THEN t_idx' = t_idx + 1 ELSE a_idx' = a_idx + 1

\* C24: a step in which an audio or text fetch fails in transport goes on to
\* the next candidate, as for not-available, and appends one error record
\* whose error kind is not the kind recorded for "no content".
C24_TransportFailureTaggedDistinctly ==
    [][InChapter =>
          \A c \in NewCallIdx :
              (calls'[c].kind \in {"audio", "text"}
               /\ calls'[c].result = "transport_error")
                  => /\ MovedOn(calls'[c].kind)
                     /\ LoggedErrors(error_log', req_book, CurChapter, calls'[c].kind)
                          = LoggedErrors(error_log, req_book, CurChapter,
                                         calls'[c].kind) + 1
                     /\ LastErrorType(error_log', req_book, CurChapter,
                                      calls'[c].kind) \notin NoContentErrorTypes]_vars

\* outcomes of a fetch that the collaborator failed
FetchFailures == {"not_available", "transport_error", "request_failed",
                  "stream_failed"}

\* C25: among the calls of one download_book_chapter call (the chapters of a
\* run are distinct) no content type is fetched twice for the same fileset,
\* and a step whose fetch failed goes on to the next candidate.
C25_NoFetchRetried ==
    [][/\ \A i \in 1..Len(calls') : \A j \in 1..Len(calls') :
             (i < j /\ calls'[i].kind = calls'[j].kind)
                 => calls'[i].fileset # calls'[j].fileset
       /\ InChapter =>
             \A c \in NewCallIdx :
                 calls'[c].result \in FetchFailures => MovedOn(calls'[c].kind)]_vars

\* C25 witness: the audio fetch of one candidate failed and the next fetch
\* of the chapter was issued for another fileset.
C25_Witness ==
    /\ Len(calls) >= 2
    /\ calls[1].kind = "audio"
    /\ calls[1].result \in FetchFailures
    /\ calls[2].kind = "audio"
    /\ calls[2].fileset # calls[1].fileset
    /\ \A i \in 1..Len(chapters) : \A j \in 1..Len(chapters) :
          i # j => chapters[i] # chapters[j]

\* C28: the directory of a work never holds audio files of two different
\* filesets for the same book and chapter.
C28_OneAudioFilesetPerUnit ==
    \A f \in files : \A g \in files :
        (/\ f.kind = "mp3" /\ g.kind = "mp3"
         /\ f.dir = g.dir /\ f.book = g.book /\ f.chapter = g.chapter)
            => f.fileset = g.fileset

\* C30: every timing file has, in the same work directory, the audio file
\* of the same fileset, book and chapter.
C30_TimingHasSiblingAudio ==
    \A t \in files :
        t.kind = "timing" =>
            \E a \in files :
                /\ a.kind = "mp3"
                /\ a.dir = t.dir /\ a.book = t.book /\ a.chapter = t.chapter
                /\ a.fileset = t.fileset

\* C30 witness: a later run found the audio of a fileset on disk, fetched
\* its timing and wrote the timing file.
C30_Witness ==
    /\ runs = 2
    /\ \E c \in 1..Len(calls) :
          /\ calls[c].kind = "timing"
          /\ calls[c].path = "resume"
          /\ calls[c].result = "ok"
          /\ Exists(files, calls[c].work, req_book, CurChapter,
                    calls[c].fileset, "timing")
          /\ Exists(files, calls[c].work, req_book, CurChapter,
                    calls[c].fileset, "mp3")

====
